---- MODULE Spec2Model ----
(***************************************************************************)
(* A model of pyBTMCP's device state synchronisation engine:               *)
(*   - DeviceRegistry        (src/src/api/device_registry.py)              *)
(*   - MQTTManager           (src/src/api/mqtt_client.py)                  *)
(*   - HRVariationManager    (src/src/api/hr_variation.py)                 *)
(*   - ConnectionManager     (src/src/api/main.py)                         *)
(* Every coroutine is cut at its await points: one action runs a coroutine *)
(* from one suspension point to the next, as the asyncio event loop does.  *)
(***************************************************************************)
EXTENDS Integers, Sequences, FiniteSets, TLC

(***************************************************************************)
(* Bounds of the model.                                                    *)
(***************************************************************************)
MaxVal == 2
MaxSteps == 4
MaxSegs == 3
MaxSockets == 2
MaxRounds == 2
MaxTasks == 3
MaxInflight == 1
MaxTicks == 2
MaxHrSteps == 7
MaxMsgs == 2
MaxHandlers == 2
MaxRoutes == 1
MaxAppSteps == 6

DeviceIds == {"dev1", "dev2"}
Vals == 1..MaxVal
Keys == {"a", "b"}
None == "None"
TypeVals == {None, "heart_rate", "bike"}

(***************************************************************************)
(* JSON values as the registry sees them.  A dict is a total function on   *)
(* AllKeys with 0 for "key absent"; "list" stands for any truthy non-dict     *)
(* JSON value ([1], 5, "x"), "null" for any falsy non-dict one (null, 0).  *)
(***************************************************************************)
AllKeys == Keys \cup {"heart_rate"}
EmptyMap == [k \in AllKeys |-> 0]
MapAB(a, b) == [k \in AllKeys |-> IF k = "a" THEN a ELSE IF k = "b" THEN b ELSE 0]
MapHR(hr) == [k \in AllKeys |-> IF k = "heart_rate" THEN hr ELSE 0]
Mappings == {MapAB(a, b) : a, b \in {0} \cup Vals}
JDict(m) == [kind |-> "dict", m |-> m]
JList == [kind |-> "list", m |-> EmptyMap]
JNull == [kind |-> "null", m |-> EmptyMap]
\* json.loads also accepts the literals NaN, Infinity and -Infinity, which
\* no JSON grammar has, and returns a float for them
JNaN == [kind |-> "nan", m |-> EmptyMap]
JsonVals == {JDict(m) : m \in Mappings} \cup {JList, JNull}
IsDict(j) == j.kind = "dict"
Truthy(j) == (j.kind \in {"list", "nan"}) \/ (j.kind = "dict" /\ j.m # EmptyMap)

\* dict.update: the keys of b override those of a, the other keys of a stay
DictUpdate(a, b) == [k \in AllKeys |-> IF b[k] # 0 THEN b[k] ELSE a[k]]

(***************************************************************************)
(* One key/value pair of an `updates` or `info` dict.  A dict is the       *)
(* sequence of its items in iteration order.                               *)
(***************************************************************************)
TypeItem(x) == [key |-> "type", t |-> x, b |-> FALSE, j |-> JNull]
OnlineItem(x) == [key |-> "online", t |-> None, b |-> x, j |-> JNull]
ValuesItem(x) == [key |-> "values", t |-> None, b |-> FALSE, j |-> x]

\* the argument sets the registry is driven with: the values dicts passed
\* hold at most one key each, so that larger ones arise only by merging
SmallMappings == {m \in Mappings : Cardinality({k \in Keys : m[k] # 0}) <= 1}
UpdateArgs ==
  {<<TypeItem(x)>> : x \in TypeVals \ {None}}
    \cup {<<OnlineItem(x)>> : x \in BOOLEAN}
    \cup {<<ValuesItem(JDict(m))>> : m \in SmallMappings}
    \cup {<<ValuesItem(JList)>>, <<ValuesItem(JNull)>>}
    \cup {<<TypeItem("bike"), ValuesItem(JDict(MapAB(1, 0)))>>}
InfoArgs == {<<>>, <<TypeItem("heart_rate")>>}

VARIABLES
  devices,          \* DeviceRegistry._devices: id -> record
  deleted_devices,  \* DeviceRegistry._deleted_devices
  now,              \* the clock read by datetime.utcnow()
  last,             \* the registry call made by the last step, and its result
  removed,          \* history: ids removed and not cleared since
  cleared,          \* history: ids whose tombstone was cleared, not removed since
  scenario,         \* history: progress of register(d); update(d, {type: t}); get(d)
  nsteps,           \* history: the number of steps taken
  emitted           \* history: per device, the value _send_hr last published and last broadcast

VARIABLES
  pattern,          \* _topic_matches: the pattern, split at "/"
  topic,            \* _topic_matches: the topic, split at "/"
  matched           \* what _topic_matches returned, "None" before the call

VARIABLES
  active_connections, \* ConnectionManager.active_connections, a list
  sock,             \* each websocket_endpoint: "new", "open" or "closed"
  gone,             \* the sockets whose peer went away: send_json raises
  rounds,           \* the broadcast() coroutines in flight
  banned            \* history: the sockets that failed in a completed round

VARIABLES
  hr_devices,       \* HRVariationManager._devices: id -> HRDeviceState
  tasks,            \* the _variation_loop tasks created so far, by task id
  coros,            \* the disable() and set_target() coroutines in flight
  connected,        \* MQTTManager._connected
  deps,             \* the manager's _mqtt_manager, _device_registry, _ws_broadcast: set or None
  ev,               \* what the last step did: calls, returns and emissions
  quiet,            \* history: disable(d) returned and enable(d) was not called since
  nticks            \* history: the number of generator ticks so far

VARIABLES
  handler,          \* the telemetry handler the listen loop is awaiting
  routes,           \* the route coroutines in flight
  told,             \* history: <<s, d>> when s was sent device_deleted for d
  received          \* history: the message the telemetry handler was last called with

VARIABLES
  client,           \* MQTTManager.client: "None", "made" (constructed) or "entered"
  message_handlers, \* MQTTManager._message_handlers, in iteration order
  inbox,            \* the messages the broker has still to deliver
  listen_task,      \* MQTTManager._listen_task and the position of _listen
  mqcall            \* the bridge call in flight

mqVars == <<client, message_handlers, inbox, listen_task, mqcall>>
VARIABLES
  snapshot          \* the list a get_all_devices() call returned, seen through its references

regVars == <<devices, deleted_devices, now>>
appVars == <<handler, routes, told, received>>
hrVars == <<hr_devices, tasks, coros, connected, deps, ev, quiet, nticks>>
wsVars == <<active_connections, sock, gone, rounds, banned>>
histVars == <<last, removed, cleared, scenario, nsteps, emitted>>
topicVars == <<pattern, topic, matched>>
vars == <<regVars, histVars, topicVars, snapshot, mqVars, wsVars, hrVars, appVars>>
\* what a call of the registry API leaves alone
nonRegVars == <<topicVars, snapshot, emitted, mqVars, wsVars, hrVars, appVars>>

(***************************************************************************)
(* DeviceRegistry.  Each operator takes the registry <<devs, del>> and     *)
(* gives the registry after the call and what the call returned.           *)
(***************************************************************************)
NewRecord(d, t) ==
  [id |-> d, type |-> None, values |-> JDict(EmptyMap), online |-> TRUE,
   first_seen |-> t, last_seen |-> t]

\* dict.update(info) on a record: a shallow overwrite, field by field
RECURSIVE Overwrite(_, _)
Overwrite(rec, items) ==
  IF items = <<>> THEN rec
  ELSE LET it == Head(items)
           r1 == CASE it.key = "type" -> [rec EXCEPT !.type = it.t]
                   [] it.key = "online" -> [rec EXCEPT !.online = it.b]
                   [] OTHER -> [rec EXCEPT !.values = it.j]
       IN Overwrite(r1, Tail(items))

\* mutant of RegisterRecord: every registration starts a fresh record
RegisterRecordFresh(devs, d, info, t) ==
  LET r0 == NewRecord(d, t)
      r1 == IF info # <<>> THEN Overwrite(r0, info) ELSE r0
  IN (d :> r1) @@ devs

\* register_device past its tombstone check: create or refresh, then merge info
RegisterRecord(devs, d, info, t) ==
  LET r0 == IF d \notin DOMAIN devs
            THEN NewRecord(d, t)
            ELSE [devs[d] EXCEPT !.last_seen = t, !.online = TRUE]
      r1 == IF info # <<>> THEN Overwrite(r0, info) ELSE r0
  IN (d :> r1) @@ devs

\* mutant of register_device: the tombstone check is missing
register_device_unchecked(devs, del, d, info, t) ==
  [devs |-> RegisterRecord(devs, d, info, t), ret |-> "True"]

register_device(devs, del, d, info, t) ==
  IF d \in del THEN [devs |-> devs, ret |-> "False"]
  ELSE [devs |-> RegisterRecord(devs, d, info, t), ret |-> "True"]

\* mutant of ApplyUpdates: a values dict replaces the stored values
RECURSIVE ApplyUpdatesReplace(_, _)
ApplyUpdatesReplace(rec, items) ==
  IF items = <<>> THEN [rec |-> rec, raised |-> FALSE]
  ELSE ApplyUpdatesReplace(Overwrite(rec, <<Head(items)>>), Tail(items))

\* the for loop of update_device over updates.items(); a values dict met
\* while the stored values is a truthy non-dict raises AttributeError and
\* leaves the fields written so far
RECURSIVE ApplyUpdates(_, _)
ApplyUpdates(rec, items) ==
  IF items = <<>> THEN [rec |-> rec, raised |-> FALSE]
  ELSE LET it == Head(items) IN
       IF it.key = "values" /\ IsDict(it.j)
       THEN LET base == IF ~Truthy(rec.values) THEN JDict(EmptyMap) ELSE rec.values
            IN IF ~IsDict(base)
               THEN [rec |-> rec, raised |-> TRUE]
               ELSE ApplyUpdates(
                      [rec EXCEPT !.values = JDict(DictUpdate(base.m, it.j.m))],
                      Tail(items))
       ELSE ApplyUpdates(Overwrite(rec, <<it>>), Tail(items))

update_device(devs, del, d, updates, t) ==
  LET reg == IF d \notin DOMAIN devs
             THEN register_device(devs, del, d, <<>>, t)
             ELSE [devs |-> devs, ret |-> "True"]
  IN IF reg.ret = "False" THEN [devs |-> devs, ret |-> "False"]
     ELSE LET res == ApplyUpdates(reg.devs[d], updates) IN
          IF res.raised
          THEN [devs |-> (d :> res.rec) @@ reg.devs, ret |-> "raise"]
          ELSE [devs |-> (d :> [res.rec EXCEPT !.last_seen = t]) @@ reg.devs,
                ret |-> "True"]

mark_offline(devs, d) ==
  IF d \in DOMAIN devs THEN (d :> [devs[d] EXCEPT !.online = FALSE]) @@ devs
  ELSE devs

get_device(devs, d) == IF d \in DOMAIN devs THEN {devs[d]} ELSE {}

\* mutant of remove_device: the tombstone is left, the record stays
remove_device_kept(devs, del, d) ==
  [devs |-> devs, del |-> del \cup {d}]

\* mutant of remove_device: the record goes, no tombstone is left
remove_device_untombstoned(devs, del, d) ==
  [devs |-> [x \in DOMAIN devs \ {d} |-> devs[x]], del |-> del]

remove_device(devs, del, d) ==
  [devs |-> [x \in DOMAIN devs \ {d} |-> devs[x]], del |-> del \cup {d}]

is_deleted(del, d) == d \in del

\* mutant of clear_deleted: the whole set is cleared
clear_deleted_all(del, d) == {}

clear_deleted(del, d) == del \ {d}

clear_all_deleted(del) == {}

(***************************************************************************)
(* MQTTManager._topic_matches on the segments str.split("/") gives.        *)
(***************************************************************************)
TopicSegs == {"ns", "abc", "status"}
PatternSegs == TopicSegs \cup {"+", "#"}
SeqsUpTo(S, n) == UNION {[1..k -> S] : k \in 1..n}
Patterns == SeqsUpTo(PatternSegs, MaxSegs)
Topics == SeqsUpTo(TopicSegs, MaxSegs)

Min(a, b) == IF a < b THEN a ELSE b

\* the for loop over zip(pattern_parts, topic_parts), from pair i on
RECURSIVE ZipMatches(_, _, _)
ZipMatches(pp, tp, i) ==
  IF i > Min(Len(pp), Len(tp)) THEN TRUE
  ELSE IF pp[i] = "#" THEN TRUE
  ELSE IF pp[i] # "+" /\ pp[i] # tp[i] THEN FALSE
  ELSE ZipMatches(pp, tp, i + 1)

topic_matches(pp, tp) ==
  IF Len(pp) # Len(tp) /\ ~(\E i \in 1..Len(pp) : pp[i] = "#")
  THEN FALSE
  ELSE ZipMatches(pp, tp, 1)

TopicIdle ==
  /\ pattern = <<"#">>
  /\ topic = <<"ns">>
  /\ matched = "None"

TopicInit ==
  /\ pattern \in Patterns
  /\ topic \in Topics
  /\ matched = "None"

Match ==
  /\ matched = "None"
  /\ matched' = IF topic_matches(pattern, topic) THEN "True" ELSE "False"
  /\ UNCHANGED <<pattern, topic, snapshot, regVars, histVars, wsVars, hrVars, appVars,
                 mqVars>>

(***************************************************************************)
(* ConnectionManager.  broadcast() is cut at each await send_json: a frame *)
(* holds the list iterator's index i, the connection cur being sent to and *)
(* the local list `disconnected`; start, got and born are history.         *)
(***************************************************************************)
Sockets == 1..MaxSockets
NoSock == 0
Range(q) == {q[i] : i \in 1..Len(q)}

\* list.remove(x) guarded by `x in list`: the first occurrence goes
RECURSIVE ListRemove(_, _)
ListRemove(q, x) ==
  IF q = <<>> THEN <<>>
  ELSE IF Head(q) = x THEN Tail(q)
  ELSE <<Head(q)>> \o ListRemove(Tail(q), x)

disconnect(conns, x) == IF x \in Range(conns) THEN ListRemove(conns, x) ELSE conns

\* the second loop of broadcast: disconnect every connection that failed
RECURSIVE DisconnectAll(_, _)
DisconnectAll(conns, failed) ==
  IF failed = <<>> THEN conns
  ELSE DisconnectAll(disconnect(conns, Head(failed)), Tail(failed))

NoFrame ==
  [pc |-> "idle", i |-> 1, cur |-> NoSock, failed |-> <<>>,
   start |-> {}, got |-> {}, born |-> {}]

\* broadcast() entered: the iterator is at the head of the list
NewFrame(conns, ban) ==
  [NoFrame EXCEPT !.start = Range(conns), !.born = ban]

\* the for loop of broadcast from the iterator's position up to the next
\* await, or through the clean-up when the iterator is exhausted
BroadcastLoop(conns, fr) ==
  IF fr.i <= Len(conns)
  THEN [conns |-> conns,
        fr |-> [fr EXCEPT !.pc = "send", !.cur = conns[fr.i], !.i = fr.i + 1]]
  ELSE [conns |-> DisconnectAll(conns, fr.failed),
        fr |-> [fr EXCEPT !.pc = "done", !.cur = NoSock]]

\* await send_json returned (ok) or raised: the except clause notes the
\* connection and the loop goes on
BroadcastResume(conns, fr, ok) ==
  BroadcastLoop(conns,
    IF ok THEN [fr EXCEPT !.got = fr.got \cup {fr.cur}]
    ELSE [fr EXCEPT !.failed = Append(fr.failed, fr.cur)])

WsIdle ==
  /\ active_connections = <<>>
  /\ sock = [s \in Sockets |-> "new"]
  /\ gone = {}
  /\ rounds = [r \in 1..MaxRounds |-> NoFrame]
  /\ banned = {}

\* websocket_endpoint up to its receive loop: ConnectionManager.connect
WsConnect(s) ==
  /\ sock[s] = "new"
  /\ sock' = [sock EXCEPT ![s] = "open"]
  /\ active_connections' = Append(active_connections, s)
  /\ UNCHANGED <<gone, rounds, banned, regVars, histVars, topicVars, snapshot, mqVars, appVars, hrVars>>

\* the peer of an accepted socket goes away
PeerGone(s) ==
  /\ sock[s] = "open"
  /\ s \notin gone
  /\ gone' = gone \cup {s}
  /\ UNCHANGED <<active_connections, sock, rounds, banned, regVars, histVars, topicVars, snapshot, mqVars, appVars, hrVars>>

\* receive_text raises in websocket_endpoint: ConnectionManager.disconnect
WsDisconnect(s) ==
  /\ sock[s] = "open"
  /\ s \in gone
  /\ sock' = [sock EXCEPT ![s] = "closed"]
  /\ active_connections' = disconnect(active_connections, s)
  /\ UNCHANGED <<gone, rounds, banned, regVars, histVars, topicVars, snapshot, mqVars, appVars, hrVars>>

\* a caller enters broadcast(message)
Broadcast(r) ==
  /\ rounds[r].pc \in {"idle", "done"}
  /\ LET res == BroadcastLoop(active_connections, NewFrame(active_connections, banned)) IN
     /\ rounds' = [rounds EXCEPT ![r] = res.fr]
     /\ active_connections' = res.conns
  /\ UNCHANGED <<sock, gone, banned, regVars, histVars, topicVars, snapshot, mqVars, appVars, hrVars>>

\* the send_json a round waits for completes, and the round runs on
BroadcastStep(r) ==
  /\ rounds[r].pc = "send"
  /\ LET res == BroadcastResume(active_connections, rounds[r], rounds[r].cur \notin gone) IN
     /\ rounds' = [rounds EXCEPT ![r] = res.fr]
     /\ active_connections' = res.conns
     /\ banned' = IF res.fr.pc = "done" THEN banned \cup Range(res.fr.failed) ELSE banned
  /\ UNCHANGED <<sock, gone, regVars, histVars, topicVars, snapshot, mqVars, appVars, hrVars>>

WsNext ==
  \/ \E s \in Sockets : WsConnect(s)
  \/ \E s \in Sockets : PeerGone(s)
  \/ \E s \in Sockets : WsDisconnect(s)
  \/ \E r \in 1..MaxRounds : Broadcast(r)
  \/ \E r \in 1..MaxRounds : BroadcastStep(r)

(***************************************************************************)
(* HRVariationManager.  float_hr is held exactly, as a number of           *)
(* 1/FloatDen units with FloatDen = 5^MaxTicks: a smoothing tick divides   *)
(* a gap by 5.  state.phase and random.random() enter a tick only through  *)
(* the offset sine_variation + random_walk, which the tick draws from the  *)
(* whole numbers in the interval [-2.3, 2.3] that the two terms span.      *)
(***************************************************************************)
MinHr == 30
MaxHr == 220
DefaultTarget == 70
NoTarget == 0
TargetArgs == {70, 75}
Offsets == {-2, 0, 2}

RECURSIVE Pow5(_)
Pow5(n) == IF n = 0 THEN 1 ELSE 5 * Pow5(n - 1)
FloatDen == Pow5(MaxTicks)

Abs(x) == IF x < 0 THEN -x ELSE x

\* round() of f / FloatDen; FloatDen is odd, so there is no tie to break
Round(f) ==
  LET q == f \div FloatDen
      r == f % FloatDen
  IN IF 2 * r < FloatDen THEN q ELSE q + 1

\* max(30, min(220, float_hr))
Clamp(f) ==
  IF f < MinHr * FloatDen THEN MinHr * FloatDen
  ELSE IF f > MaxHr * FloatDen THEN MaxHr * FloatDen ELSE f

\* a pass that sets float_hr to the ideal value at once
TickFloatJump(st, off) == (st.target + off) * FloatDen

\* one pass of the loop body up to the rounding: the new float_hr
TickFloat(st, off) ==
  LET ideal == (st.target + off) * FloatDen
      distance == Abs(ideal - st.float_hr)
  IN IF distance > 3 * FloatDen
     THEN st.float_hr + (IF ideal > st.float_hr THEN FloatDen ELSE -FloatDen)
     ELSE st.float_hr + ((ideal - st.float_hr) \div 5)

\* what set_dependencies stored: each dependency is set or None
Deps(m, r, w) == [mqtt_manager |-> m, device_registry |-> r, ws_broadcast |-> w]

\* __init__: the three dependencies are None
NoDeps == Deps(FALSE, FALSE, FALSE)

HRDeviceState(target) ==
  [target |-> target, float_hr |-> target * FloatDen, enabled |-> FALSE, task |-> 0]

get_state(hrs, d) ==
  IF d \notin DOMAIN hrs
  THEN [enabled |-> FALSE, target |-> DefaultTarget, current |-> DefaultTarget]
  ELSE [enabled |-> hrs[d].enabled, target |-> hrs[d].target,
        current |-> Round(hrs[d].float_hr)]

\* set_target before its test of enabled: the state is created or retargeted
SetTargetState(hrs, d, target) ==
  IF d \notin DOMAIN hrs THEN (d :> HRDeviceState(target)) @@ hrs
  ELSE [hrs EXCEPT ![d].target = target]

\* set_target: `if not self._devices[device_id].enabled`
SetTargetSends(st) == ~st.enabled

\* mutant of EnableState: the target of a known device stays as it was
EnableStateKept(hrs, d, target) ==
  IF d \notin DOMAIN hrs
  THEN (d :> HRDeviceState(IF target # NoTarget THEN target ELSE DefaultTarget)) @@ hrs
  ELSE hrs

\* mutant of EnableState: without a target a known device starts afresh
EnableStateReset(hrs, d, target) ==
  IF d \notin DOMAIN hrs
  THEN (d :> HRDeviceState(IF target # NoTarget THEN target ELSE DefaultTarget)) @@ hrs
  ELSE IF target # NoTarget THEN [hrs EXCEPT ![d].target = target]
  ELSE [hrs EXCEPT ![d].target = DefaultTarget, ![d].float_hr = DefaultTarget * FloatDen]

\* enable before its test of the running task: the state is created
\* (`target or 70`) or, with a target given, retargeted
EnableState(hrs, d, target) ==
  IF d \notin DOMAIN hrs
  THEN (d :> HRDeviceState(IF target # NoTarget THEN target ELSE DefaultTarget)) @@ hrs
  ELSE IF target # NoTarget THEN [hrs EXCEPT ![d].target = target]
  ELSE hrs

\* task.done()
Done(t) == t.pc = "done"

\* enable: `state.enabled and state.task and not state.task.done()`
AlreadyRunning(st, ts) == st.enabled /\ st.task # 0 /\ ~Done(ts[st.task])

NewTask(d) ==
  [dev |-> d, pc |-> "new", last_sent |-> 0, cancel |-> FALSE, hr |-> 0,
   bc |-> NoFrame, exc |-> FALSE]

NoCoro ==
  [op |-> "idle", dev |-> "dev1", target |-> NoTarget, pc |-> "idle",
   bc |-> NoFrame, awaiting |-> 0, trace |-> <<>>, was_enabled |-> FALSE]

\* an entry of ev: what was done (k), for which device, with which value, by
\* which coroutine; a return carries what the call emitted (trace) and
\* whether it found the simulation enabled (flag)
Event(k, d, v, by, id) ==
  [k |-> k, d |-> d, v |-> v, by |-> by, id |-> id, trace |-> <<>>, flag |-> FALSE]
Kinds(evs) == [i \in 1..Len(evs) |-> evs[i].k]

(***************************************************************************)
(* _send_hr, cut at await publish and at each await send_json of the       *)
(* broadcast.  Each operator runs it up to the next await or to its end    *)
(* and gives the registry, the connection list, the broadcast frame, where *)
(* it stopped ("publish", "send", "returned", "raised") and the emissions. *)
(***************************************************************************)
\* nothing published or broadcast yet (0)
NoEmitted == [d \in DeviceIds |-> [published |-> 0, broadcast |-> 0]]

\* the values last handed to mqtt_manager.publish and to ws_broadcast, after
\* the emissions evs of a step of _send_hr
Emitted(em, evs) ==
  LET Last(k, d, old) ==
        IF \E i \in 1..Len(evs) : evs[i].k = k /\ evs[i].d = d
        THEN evs[CHOOSE i \in 1..Len(evs) : evs[i].k = k /\ evs[i].d = d].v
        ELSE old
  IN [d \in DOMAIN em |-> [published |-> Last("publish", d, em[d].published),
                           broadcast |-> Last("broadcast", d, em[d].broadcast)]]

\* the heart_rate the registry holds for d, 0 when it holds none
StoredHr(devs, d) ==
  IF d \in DOMAIN devs /\ IsDict(devs[d].values) THEN devs[d].values.m["heart_rate"] ELSE 0

SendResult(devs, conns, fr, at, evs) ==
  [devs |-> devs, conns |-> conns, fr |-> fr, at |-> at, evs |-> evs]

\* from the registry update on: update_device when the manager has a
\* registry, then the broadcast when it has a broadcaster
SendAfterPublish(devs, del, conns, ban, t, d, hr, by, id) ==
  LET r == IF deps.device_registry
           THEN update_device(devs, del, d, <<ValuesItem(JDict(MapHR(hr)))>>, t)
           ELSE [devs |-> devs, ret |-> "None"]
      updated == IF deps.device_registry
                 THEN <<Event("registry", d, hr, by, id)>> ELSE <<>>
  IN
  IF r.ret = "raise"
  THEN SendResult(r.devs, conns, NoFrame, "raised", <<>>)
  ELSE IF ~deps.ws_broadcast
  THEN SendResult(r.devs, conns, NoFrame, "returned", updated)
  ELSE LET b == BroadcastLoop(conns, NewFrame(conns, ban)) IN
       SendResult(r.devs, b.conns, b.fr,
                  IF b.fr.pc = "done" THEN "returned" ELSE "send",
                  updated \o <<Event("broadcast", d, hr, by, id)>>
                    \o (IF b.fr.pc = "done" THEN <<>>
                        ELSE <<Event("deliver", d, hr, by, id)>>))

\* from the start: the publish when the manager has a bridge and it is
\* connected (fails: the broker publish raises)
SendHr(devs, del, conns, ban, t, conn, fails, d, hr, by, id) ==
  IF deps.mqtt_manager /\ conn
  THEN IF fails THEN SendResult(devs, conns, NoFrame, "raised", <<>>)
       ELSE SendResult(devs, conns, NoFrame, "publish",
                       <<Event("publish", d, hr, by, id)>>)
  ELSE SendAfterPublish(devs, del, conns, ban, t, d, hr, by, id)

\* from an await send_json of the broadcast
SendAfterDelivery(devs, conns, fr, ok, d, hr, by, id) ==
  LET b == BroadcastResume(conns, fr, ok) IN
  SendResult(devs, b.conns, b.fr,
             IF b.fr.pc = "done" THEN "returned" ELSE "send",
             IF b.fr.pc = "done" THEN <<>> ELSE <<Event("deliver", d, hr, by, id)>>)

\* the sockets that failed in the rounds completed so far
BannedAfter(ban, fr) == IF fr.pc = "done" THEN ban \cup Range(fr.failed) ELSE ban

(***************************************************************************)
(* The generator tasks.                                                    *)
(***************************************************************************)
HrIds == {"dev1"}

\* one step of the manager, its calls or its tasks
hrHist == <<last, removed, cleared, scenario, emitted>>
HrStep == nsteps < MaxHrSteps /\ nsteps' = nsteps + 1

\* where a task stands once _send_hr stopped at `at`: at an await of
\* _send_hr, at the sleep after it, or ended by the exception it raised
TaskAfterSend(tk, res) ==
  IF res.at = "raised" THEN [tk EXCEPT !.pc = "done", !.exc = TRUE, !.bc = NoFrame]
  ELSE IF res.at = "returned" THEN [tk EXCEPT !.pc = "sleep", !.bc = res.fr]
  ELSE [tk EXCEPT !.pc = res.at, !.bc = res.fr]

\* the task is resumed with a cancellation pending: CancelledError is raised
\* at its await (or before its first step) and the loop's except ends it
TaskCancelled(t) ==
  /\ HrStep
  /\ t \in 1..Len(tasks)
  /\ ~Done(tasks[t])
  /\ tasks[t].cancel
  /\ tasks' = [tasks EXCEPT ![t].pc = "done", ![t].cancel = FALSE]
  /\ ev' = <<Event("cancelled", tasks[t].dev, 0, "task", t)>>
  /\ UNCHANGED <<hr_devices, coros, connected, deps, quiet, nticks,
                 regVars, hrHist, topicVars, snapshot, mqVars, appVars, wsVars>>

\* `while state.enabled` is found false: the task ends
TaskExit(t) ==
  /\ HrStep
  /\ t \in 1..Len(tasks)
  /\ tasks[t].pc \in {"new", "sleep"}
  /\ ~tasks[t].cancel
  /\ ~hr_devices[tasks[t].dev].enabled
  /\ tasks' = [tasks EXCEPT ![t].pc = "done"]
  /\ ev' = <<Event("exit", tasks[t].dev, 0, "task", t)>>
  /\ UNCHANGED <<hr_devices, coros, connected, deps, quiet, nticks,
                 regVars, hrHist, topicVars, snapshot, mqVars, appVars, wsVars>>

\* a loop that sends on every pass
TickSendsAlways(tk, hr) == TRUE

\* `if current_hr != last_sent`
TickSends(tk, hr) == hr # tk.last_sent

\* one pass of the loop, from its start or from the sleep: the tick, and
\* _send_hr up to its first await when the rounded value changed
TaskTick(t, off, fails) ==
  /\ HrStep
  /\ t \in 1..Len(tasks)
  /\ tasks[t].pc \in {"new", "sleep"}
  /\ ~tasks[t].cancel
  /\ hr_devices[tasks[t].dev].enabled
  /\ nticks < MaxTicks
  /\ nticks' = nticks + 1
  /\ LET d == tasks[t].dev
         f == TickFloat(hr_devices[d], off)
         current_hr == Round(Clamp(f))
     IN /\ hr_devices' = [hr_devices EXCEPT ![d].float_hr = f]
        /\ IF TickSends(tasks[t], current_hr)
           THEN LET res == SendHr(devices, deleted_devices, active_connections,
                                  banned, now, connected, fails, d, current_hr,
                                  "task", t)
                IN /\ tasks' = [tasks EXCEPT ![t] =
                                  TaskAfterSend([@ EXCEPT !.last_sent = current_hr,
                                                          !.hr = current_hr], res)]
                   /\ devices' = res.devs
                   /\ active_connections' = res.conns
                   /\ banned' = BannedAfter(banned, res.fr)
                   /\ ev' = <<Event("tick", d, current_hr, "task", t)>> \o res.evs
                   /\ emitted' = Emitted(emitted, res.evs)
           ELSE /\ ~fails
                /\ tasks' = [tasks EXCEPT ![t].pc = "sleep"]
                /\ ev' = <<Event("tick", d, current_hr, "task", t)>>
                /\ UNCHANGED <<devices, active_connections, banned, emitted>>
  /\ UNCHANGED <<coros, connected, deps, quiet, deleted_devices, now, last, removed,
                 cleared, scenario,
                 topicVars, snapshot, mqVars, appVars, sock, gone, rounds>>

\* await publish returned: the registry update and the broadcast
TaskAfterPublish(t) ==
  /\ HrStep
  /\ t \in 1..Len(tasks)
  /\ tasks[t].pc = "publish"
  /\ ~tasks[t].cancel
  /\ LET res == SendAfterPublish(devices, deleted_devices, active_connections,
                                 banned, now, tasks[t].dev, tasks[t].hr, "task", t)
     IN /\ tasks' = [tasks EXCEPT ![t] = TaskAfterSend(@, res)]
        /\ devices' = res.devs
        /\ active_connections' = res.conns
        /\ banned' = BannedAfter(banned, res.fr)
        /\ ev' = res.evs
        /\ emitted' = Emitted(emitted, res.evs)
  /\ UNCHANGED <<hr_devices, coros, connected, deps, quiet, nticks, deleted_devices,
                 now, last, removed, cleared, scenario, topicVars, snapshot, mqVars, appVars, sock, gone, rounds>>

\* await send_json returned or raised: the broadcast runs on
TaskAfterDelivery(t) ==
  /\ HrStep
  /\ t \in 1..Len(tasks)
  /\ tasks[t].pc = "send"
  /\ ~tasks[t].cancel
  /\ LET res == SendAfterDelivery(devices, active_connections, tasks[t].bc,
                                  tasks[t].bc.cur \notin gone,
                                  tasks[t].dev, tasks[t].hr, "task", t)
     IN /\ tasks' = [tasks EXCEPT ![t] = TaskAfterSend(@, res)]
        /\ active_connections' = res.conns
        /\ banned' = BannedAfter(banned, res.fr)
        /\ ev' = res.evs
  /\ UNCHANGED <<hr_devices, coros, connected, deps, quiet, nticks, regVars,
                 hrHist, topicVars, snapshot, mqVars, appVars, sock, gone, rounds>>

(***************************************************************************)
(* The calls of the manager: enable runs without an await; disable awaits  *)
(* the task it cancelled; set_target awaits inside _send_hr.               *)
(***************************************************************************)
\* set_dependencies(mqtt_manager, device_registry, ws_broadcast=None), called
\* as start-up wiring: before the first call that gives a device a state
SetDependencies(w) ==
  /\ HrStep
  /\ hr_devices = <<>>
  /\ deps' = Deps(TRUE, TRUE, w)
  /\ ev' = <<Event("set_dependencies", "dev1", 0, "set_dependencies", 0)>>
  /\ UNCHANGED <<hr_devices, tasks, coros, connected, quiet, nticks,
                 regVars, hrHist, topicVars, snapshot, mqVars, appVars, wsVars>>

Return(op, d, v, id, trace, flag) ==
  [Event("return", d, v, op, id) EXCEPT !.trace = trace, !.flag = flag]

\* a call in flight takes the first free slot of coros
FreeSlot(c) ==
  /\ coros[c].pc = "idle"
  /\ \A c2 \in 1..(c - 1) : coros[c2].pc # "idle"

Enable(d, target) ==
  /\ HrStep
  /\ LET hrs == EnableState(hr_devices, d, target) IN
     IF AlreadyRunning(hrs[d], tasks)
     THEN /\ hr_devices' = hrs
          /\ UNCHANGED tasks
     ELSE /\ Len(tasks) < MaxTasks
          /\ hr_devices' = [hrs EXCEPT ![d].enabled = TRUE, ![d].task = Len(tasks) + 1]
          /\ tasks' = Append(tasks, NewTask(d))
  /\ quiet' = [quiet EXCEPT ![d] = FALSE]
  /\ ev' = <<Event("enable", d, target, "enable", 0)>>
  /\ UNCHANGED <<coros, connected, deps, nticks, regVars, hrHist, topicVars, snapshot, mqVars, appVars, wsVars>>

\* disable up to its await, or to its end when there is no task to await
Disable(c, d) ==
  /\ HrStep
  /\ FreeSlot(c)
  /\ IF d \notin DOMAIN hr_devices
     THEN /\ quiet' = [quiet EXCEPT ![d] = TRUE]
          /\ ev' = <<Return("disable", d, 0, c, <<>>, FALSE)>>
          /\ UNCHANGED <<hr_devices, tasks, coros>>
     ELSE LET st == hr_devices[d] IN
          /\ hr_devices' = [hr_devices EXCEPT ![d].enabled = FALSE]
          /\ IF st.task # 0 /\ ~Done(tasks[st.task])
             THEN /\ tasks' = [tasks EXCEPT ![st.task].cancel = TRUE]
                  /\ coros' = [coros EXCEPT ![c] =
                                 [NoCoro EXCEPT !.op = "disable", !.dev = d,
                                                !.pc = "await_task",
                                                !.awaiting = st.task]]
                  /\ ev' = <<Event("call", d, 0, "disable", c)>>
                  /\ UNCHANGED quiet
             ELSE /\ quiet' = [quiet EXCEPT ![d] = TRUE]
                  /\ ev' = <<Return("disable", d, 0, c, <<>>, FALSE)>>
                  /\ UNCHANGED <<tasks, coros>>
  /\ UNCHANGED <<connected, deps, nticks, regVars, hrHist, topicVars, snapshot, mqVars, appVars, wsVars>>

\* the awaited task is done: `state.task = None`, and disable returns
DisableResume(c) ==
  /\ HrStep
  /\ coros[c].pc = "await_task"
  /\ Done(tasks[coros[c].awaiting])
  /\ hr_devices' = [hr_devices EXCEPT ![coros[c].dev].task = 0]
  /\ coros' = [coros EXCEPT ![c] = NoCoro]
  /\ quiet' = [quiet EXCEPT ![coros[c].dev] = TRUE]
  /\ ev' = <<Return("disable", coros[c].dev, 0, c, <<>>, FALSE)>>
  /\ UNCHANGED <<tasks, connected, deps, nticks, regVars, hrHist, topicVars, snapshot, mqVars, appVars, wsVars>>

\* where a set_target call stands once _send_hr stopped, and what the step did
CoroAfterSend(co, c, res) ==
  IF res.at \in {"publish", "send"}
  THEN [co EXCEPT !.pc = res.at, !.bc = res.fr, !.trace = co.trace \o Kinds(res.evs)]
  ELSE NoCoro

EventsAfterSend(co, c, res) ==
  res.evs \o
    (IF res.at = "returned"
     THEN <<Return("set_target", co.dev, co.target, c,
                   co.trace \o Kinds(res.evs), co.was_enabled)>>
     ELSE IF res.at = "raised"
     THEN <<Event("raise", co.dev, co.target, "set_target", c)>>
     ELSE <<>>)

\* set_target up to the first await of _send_hr, or to its end
SetTarget(c, d, target, fails) ==
  /\ HrStep
  /\ FreeSlot(c)
  /\ LET hrs == SetTargetState(hr_devices, d, target)
         co == [NoCoro EXCEPT !.op = "set_target", !.dev = d, !.target = target,
                              !.was_enabled = hrs[d].enabled]
     IN /\ hr_devices' = hrs
        /\ IF SetTargetSends(hrs[d])
           THEN LET res == SendHr(devices, deleted_devices, active_connections,
                                  banned, now, connected, fails, d, target, "call", c)
                IN /\ coros' = [coros EXCEPT ![c] = CoroAfterSend(co, c, res)]
                   /\ devices' = res.devs
                   /\ active_connections' = res.conns
                   /\ banned' = BannedAfter(banned, res.fr)
                   /\ ev' = <<Event("call", d, target, "set_target", c)>>
                              \o EventsAfterSend(co, c, res)
                   /\ emitted' = Emitted(emitted, res.evs)
           ELSE /\ ~fails
                /\ ev' = <<Event("call", d, target, "set_target", c),
                           Return("set_target", d, target, c, <<>>, hrs[d].enabled)>>
                /\ UNCHANGED <<coros, devices, active_connections, banned, emitted>>
  /\ UNCHANGED <<tasks, connected, deps, quiet, nticks, deleted_devices, now,
                 last, removed, cleared, scenario, topicVars, snapshot, mqVars, appVars, sock, gone, rounds>>

\* await publish returned in a set_target call
SetTargetAfterPublish(c) ==
  /\ HrStep
  /\ coros[c].pc = "publish"
  /\ LET co == coros[c]
         res == SendAfterPublish(devices, deleted_devices, active_connections,
                                 banned, now, co.dev, co.target, "call", c)
     IN /\ coros' = [coros EXCEPT ![c] = CoroAfterSend(co, c, res)]
        /\ devices' = res.devs
        /\ active_connections' = res.conns
        /\ banned' = BannedAfter(banned, res.fr)
        /\ ev' = EventsAfterSend(co, c, res)
        /\ emitted' = Emitted(emitted, res.evs)
  /\ UNCHANGED <<hr_devices, tasks, connected, deps, quiet, nticks, deleted_devices,
                 now, last, removed, cleared, scenario, topicVars, snapshot, mqVars, appVars, sock, gone, rounds>>

\* await send_json returned or raised in a set_target call
SetTargetAfterDelivery(c) ==
  /\ HrStep
  /\ coros[c].pc = "send"
  /\ LET co == coros[c]
         res == SendAfterDelivery(devices, active_connections, co.bc,
                                  co.bc.cur \notin gone, co.dev, co.target, "call", c)
     IN /\ coros' = [coros EXCEPT ![c] = CoroAfterSend(co, c, res)]
        /\ active_connections' = res.conns
        /\ banned' = BannedAfter(banned, res.fr)
        /\ ev' = EventsAfterSend(co, c, res)
  /\ UNCHANGED <<hr_devices, tasks, connected, deps, quiet, nticks, regVars,
                 hrHist, topicVars, snapshot, mqVars, appVars, sock, gone, rounds>>

HrIdle ==
  /\ hr_devices = <<>>
  /\ tasks = <<>>
  /\ coros = [c \in 1..MaxInflight |-> NoCoro]
  /\ connected = FALSE
  /\ deps = NoDeps
  /\ ev = <<>>
  /\ quiet = [d \in DeviceIds |-> FALSE]
  /\ nticks = 0


(***************************************************************************)
(* The telemetry handlers of main.py, run one at a time by the listen      *)
(* loop, and the delete_device route.  Each is cut at its awaits.  A       *)
(* device_update holds the dict get_device returned, or None (has).        *)
(***************************************************************************)
AppIds == {"dev1"}

NoHandler ==
  [pc |-> "idle", kind |-> "status", dev |-> "dev1", has |-> FALSE, bc |-> NoFrame]

NoMessage == [kind |-> "none", dev |-> "dev1", json |-> "ok", at |-> 0]

NoRoute ==
  [op |-> "idle", pc |-> "idle", dev |-> "dev1", bc |-> NoFrame, awaiting |-> 0]

AppIdle ==
  /\ handler = NoHandler
  /\ routes = [c \in 1..MaxRoutes |-> NoRoute]
  /\ told = {}
  /\ received = NoMessage

\* one step of a handler or of a route
AppStep == nsteps < MaxAppSteps /\ nsteps' = nsteps + 1

\* the payloads of a status message: a text json.loads rejects (bad), the
\* literal NaN, JSON but no object, or an object with its online and type
\* members
StatusPayload(j, o, t) == [json |-> j, online |-> o, type |-> t]
StatusPayloads ==
  {StatusPayload("bad", TRUE, None), StatusPayload("nan", TRUE, None),
   StatusPayload("list", TRUE, None)}
    \cup {StatusPayload("dict", o, t) : o \in BOOLEAN, t \in {None, "heart_rate"}}

\* the payloads of a values message
ValuesPayload(j, v) == [json |-> j, j |-> v]
ValuesPayloads ==
  {ValuesPayload("bad", JNull), ValuesPayload("nan", JNaN), ValuesPayload("ok", JList),
   ValuesPayload("ok", JDict(MapAB(1, 0)))}

\* json.loads(payload) raises JSONDecodeError
JSONDecodeError(p) == p.json = "bad"

\* the payload is a text of the JSON grammar
ValidJson(p) == p.json \notin {"bad", "nan"}

\* the handler of kind was called for device d with payload p
Received(kind, d, p) == [kind |-> kind, dev |-> d, json |-> p.json, at |-> nsteps]

\* a message delivered to socket s: its type, device and whether its data
\* is a record (full) or None
Sent(type, d, s, by, id, full) ==
  [Event(type, d, s, by, id) EXCEPT !.flag = full]

\* a handler from its ws_manager.broadcast on
HandlerBroadcast(kind, d, devs) ==
  LET b == BroadcastLoop(active_connections, NewFrame(active_connections, banned)) IN
  /\ handler' = IF b.fr.pc = "done" THEN NoHandler
                ELSE [pc |-> "send", kind |-> kind, dev |-> d,
                      has |-> d \in DOMAIN devs, bc |-> b.fr]
  /\ active_connections' = b.conns
  /\ banned' = BannedAfter(banned, b.fr)
  /\ ev' = <<Event("broadcast", d, 0, kind, 0)>>

\* handle_device_status up to its first await
HandleStatus(d, p) ==
  /\ AppStep
  /\ handler.pc = "idle"
  /\ received' = Received("status", d, p)
  /\ IF JSONDecodeError(p)
     THEN /\ ev' = <<Event("dropped", d, 0, "status", 0)>>
          /\ UNCHANGED <<devices, handler, active_connections, banned>>
     ELSE LET reg == register_device(devices, deleted_devices, d, <<>>, now) IN
          IF p.json # "dict"
          THEN /\ devices' = reg.devs
               /\ ev' = <<Event("raise", d, 0, "status", 0)>>
               /\ UNCHANGED <<handler, active_connections, banned>>
          ELSE LET upd == update_device(reg.devs, deleted_devices, d,
                                        <<OnlineItem(p.online), TypeItem(p.type)>>, now)
               IN /\ devices' = upd.devs
                  /\ HandlerBroadcast("status", d, upd.devs)
  /\ UNCHANGED <<deleted_devices, now, hrHist, topicVars, snapshot, mqVars, sock, gone, rounds,
                 hr_devices, tasks, coros, connected, deps, quiet, nticks,
                 routes, told>>

\* handle_device_values up to its first await
HandleValues(d, p) ==
  /\ AppStep
  /\ handler.pc = "idle"
  /\ received' = Received("values", d, p)
  /\ IF JSONDecodeError(p)
     THEN /\ ev' = <<Event("dropped", d, 0, "values", 0)>>
          /\ UNCHANGED <<devices, handler, active_connections, banned>>
     ELSE LET upd == update_device(devices, deleted_devices, d, <<ValuesItem(p.j)>>, now) IN
          IF upd.ret = "raise"
          THEN /\ devices' = upd.devs
               /\ ev' = <<Event("raise", d, 0, "values", 0)>>
               /\ UNCHANGED <<handler, active_connections, banned>>
          ELSE /\ devices' = upd.devs
               /\ HandlerBroadcast("values", d, upd.devs)
  /\ UNCHANGED <<deleted_devices, now, hrHist, topicVars, snapshot, mqVars, sock, gone, rounds,
                 hr_devices, tasks, coros, connected, deps, quiet, nticks,
                 routes, told>>

\* await send_json returned or raised in the handler's broadcast
HandlerAfterDelivery ==
  /\ AppStep
  /\ handler.pc = "send"
  /\ LET ok == handler.bc.cur \notin gone
         b == BroadcastResume(active_connections, handler.bc, ok)
     IN /\ handler' = IF b.fr.pc = "done" THEN NoHandler
                      ELSE [handler EXCEPT !.bc = b.fr]
        /\ active_connections' = b.conns
        /\ banned' = BannedAfter(banned, b.fr)
        /\ ev' = IF ok
                 THEN <<Sent("device_update", handler.dev, handler.bc.cur,
                             handler.kind, 0, handler.has)>>
                 ELSE <<>>
  /\ UNCHANGED <<regVars, hrHist, topicVars, snapshot, mqVars, sock, gone, rounds,
                 hr_devices, tasks, coros, connected, deps, quiet, nticks,
                 routes, told, received>>

\* a route call takes the first free slot of routes
FreeRoute(c) ==
  /\ routes[c].pc = "idle"
  /\ \A c2 \in 1..(c - 1) : routes[c2].pc # "idle"

\* the response of a route: a status code
Response(op, d, code, id) == Event("response", d, code, op, id)

\* delete_device from a clear_retained on (stage 1 or 2) or from
\* remove_device on (stage 3), up to the next await or to the response:
\* clear_retained returns at once when the bridge is not connected
DeleteRun(c, d, stage) ==
  IF stage <= 2 /\ connected
  THEN /\ routes' = [routes EXCEPT ![c] =
                       [NoRoute EXCEPT !.op = "delete_device", !.dev = d,
                                      !.pc = IF stage = 1 THEN "clear1" ELSE "clear2"]]
       /\ ev' = <<Event("clear_retained", d, stage, "delete_device", c)>>
       /\ UNCHANGED <<devices, deleted_devices, active_connections, banned>>
  ELSE LET r == remove_device(devices, deleted_devices, d)
           b == BroadcastLoop(active_connections, NewFrame(active_connections, banned))
       IN /\ devices' = r.devs
          /\ deleted_devices' = r.del
          /\ active_connections' = b.conns
          /\ banned' = BannedAfter(banned, b.fr)
          /\ routes' = [routes EXCEPT ![c] =
                          IF b.fr.pc = "done" THEN NoRoute
                          ELSE [NoRoute EXCEPT !.op = "delete_device", !.dev = d,
                                              !.pc = "send", !.bc = b.fr]]
          /\ ev' = <<Event("removed", d, 0, "delete_device", c)>>
                     \o (IF b.fr.pc = "done"
                         THEN <<Response("delete_device", d, 200, c)>> ELSE <<>>)

\* delete_device up to its first await: 404 for an unknown device, else
\* disable(d), which suspends only when it cancelled a task
DeleteDevice(c, d) ==
  /\ AppStep
  /\ FreeRoute(c)
  /\ IF get_device(devices, d) = {}
     THEN /\ ev' = <<Response("delete_device", d, 404, c)>>
          /\ UNCHANGED <<devices, deleted_devices, active_connections, banned,
                         routes, hr_devices, tasks, quiet>>
     ELSE IF d \notin DOMAIN hr_devices
     THEN /\ DeleteRun(c, d, 1)
          /\ quiet' = [quiet EXCEPT ![d] = TRUE]
          /\ UNCHANGED <<hr_devices, tasks>>
     ELSE LET st == hr_devices[d] IN
          /\ hr_devices' = [hr_devices EXCEPT ![d].enabled = FALSE]
          /\ IF st.task # 0 /\ ~Done(tasks[st.task])
             THEN /\ tasks' = [tasks EXCEPT ![st.task].cancel = TRUE]
                  /\ routes' = [routes EXCEPT ![c] =
                                  [NoRoute EXCEPT !.op = "delete_device", !.dev = d,
                                                 !.pc = "await_task",
                                                 !.awaiting = st.task]]
                  /\ ev' = <<Event("call", d, 0, "delete_device", c)>>
                  /\ UNCHANGED <<devices, deleted_devices, active_connections,
                                 banned, quiet>>
             ELSE /\ DeleteRun(c, d, 1)
                  /\ quiet' = [quiet EXCEPT ![d] = TRUE]
                  /\ UNCHANGED tasks
  /\ UNCHANGED <<now, hrHist, topicVars, snapshot, mqVars, sock, gone, rounds, coros, connected,
                 deps, nticks, handler, told, received>>

\* the task disable awaited is done: `state.task = None`, disable returns
\* and delete_device goes on to clear the retained messages
DeleteAfterDisable(c) ==
  /\ AppStep
  /\ routes[c].pc = "await_task"
  /\ Done(tasks[routes[c].awaiting])
  /\ hr_devices' = [hr_devices EXCEPT ![routes[c].dev].task = 0]
  /\ quiet' = [quiet EXCEPT ![routes[c].dev] = TRUE]
  /\ DeleteRun(c, routes[c].dev, 1)
  /\ UNCHANGED <<now, hrHist, topicVars, snapshot, mqVars, sock, gone, rounds, tasks, coros,
                 connected, deps, nticks, handler, told, received>>

\* the publish of a clear_retained returned, or raised (fails): the except
\* clause of delete_device skips what is left of the try block
DeleteAfterClear(c, fails) ==
  /\ AppStep
  /\ routes[c].pc \in {"clear1", "clear2"}
  /\ DeleteRun(c, routes[c].dev, IF fails \/ routes[c].pc = "clear2" THEN 3 ELSE 2)
  /\ UNCHANGED <<now, hrHist, topicVars, snapshot, mqVars, sock, gone, rounds, hr_devices, tasks,
                 coros, connected, deps, quiet, nticks, handler, told, received>>

\* await send_json returned or raised in the device_deleted broadcast
DeleteAfterDelivery(c) ==
  /\ AppStep
  /\ routes[c].pc = "send"
  /\ LET ok == routes[c].bc.cur \notin gone
         d == routes[c].dev
         b == BroadcastResume(active_connections, routes[c].bc, ok)
     IN /\ routes' = [routes EXCEPT ![c] =
                        IF b.fr.pc = "done" THEN NoRoute ELSE [@ EXCEPT !.bc = b.fr]]
        /\ active_connections' = b.conns
        /\ banned' = BannedAfter(banned, b.fr)
        /\ told' = IF ok THEN told \cup {<<routes[c].bc.cur, d>>} ELSE told
        /\ ev' = (IF ok THEN <<Sent("device_deleted", d, routes[c].bc.cur,
                                    "delete_device", c, FALSE)>> ELSE <<>>)
                   \o (IF b.fr.pc = "done"
                       THEN <<Response("delete_device", d, 200, c)>> ELSE <<>>)
  /\ UNCHANGED <<regVars, hrHist, topicVars, snapshot, mqVars, sock, gone, rounds, hr_devices,
                 tasks, coros, connected, deps, quiet, nticks, handler, received>>

(***************************************************************************)
(* The routes that send a command to a device through the bridge:          *)
(* configure_device, set_device_values and disconnect_ble.  Each tests     *)
(* is_connected, awaits the bridge's publish and then, the first two,      *)
(* updates the registry.                                                   *)
(***************************************************************************)
ControlOps == {"configure_device", "set_device_values", "disconnect_ble"}

\* the dict a control route passes to update_device
ControlUpdate(op) ==
  IF op = "configure_device" THEN <<TypeItem("bike")>>
  ELSE IF op = "set_device_values" THEN <<ValuesItem(JDict(MapHR(1)))>>
  ELSE <<>>

\* a control route up to its await of the publish, or to its 503
ControlRoute(c, op, d) ==
  /\ AppStep
  /\ FreeRoute(c)
  /\ IF ~connected
     THEN /\ ev' = <<Response(op, d, 503, c)>>
          /\ UNCHANGED routes
     ELSE /\ routes' = [routes EXCEPT ![c] = [NoRoute EXCEPT !.op = op, !.dev = d,
                                                            !.pc = "publish"]]
          /\ ev' = <<Event("publish", d, 0, op, c)>>
  /\ UNCHANGED <<regVars, hrHist, topicVars, snapshot, mqVars, wsVars, handler, told, received,
                 hr_devices, tasks, coros, connected, deps, quiet, nticks>>

\* the publish returned, or raised (fails): the exception, like one raised
\* by update_device, leaves the route as a 500
ControlAfterPublish(c, fails) ==
  /\ AppStep
  /\ routes[c].pc = "publish"
  /\ routes' = [routes EXCEPT ![c] = NoRoute]
  /\ LET op == routes[c].op
         d == routes[c].dev
         upd == update_device(devices, deleted_devices, d, ControlUpdate(op), now)
     IN IF fails
        THEN /\ ev' = <<Response(op, d, 500, c)>>
             /\ UNCHANGED devices
        ELSE IF op = "disconnect_ble"
        THEN /\ ev' = <<Event("published", d, 0, op, c), Response(op, d, 200, c)>>
             /\ UNCHANGED devices
        ELSE /\ devices' = upd.devs
             /\ ev' = <<Event("published", d, 0, op, c),
                        Response(op, d, IF upd.ret = "raise" THEN 500 ELSE 200, c)>>
  /\ UNCHANGED <<deleted_devices, now, hrHist, topicVars, snapshot, mqVars, wsVars, handler, told, received,
                 hr_devices, tasks, coros, connected, deps, quiet, nticks>>

(***************************************************************************)
(* MQTTManager.  connect, publish, clear_retained and disconnect are cut   *)
(* at their awaits, one call in flight at a time; _listen runs as a task   *)
(* of its own, cut at the wait for the next message and at each            *)
(* await handler(topic, payload).  ev holds what the last step did.        *)
(***************************************************************************)
BridgeTopics == {<<"ble-sim", "dev1", "status">>, <<"ble-sim", "dev1", "values">>}
HandlerPatterns == {<<"ble-sim", "+", "status">>, <<"#">>}

\* an inbound message: its topic and whether payload.decode() succeeds
Messages == [topic : BridgeTopics, ok : BOOLEAN]
\* a registered handler: its pattern and whether it raises when awaited
Handlers == [pattern : HandlerPatterns, raises : BOOLEAN]

NoListen ==
  [pc |-> "none", n |-> 0, topic |-> <<>>, h |-> 0, ran |-> {}, cancelled |-> FALSE,
   why |-> "None"]
NoMqCall == [op |-> "idle", pc |-> "idle", n |-> 0]

MqIdle ==
  /\ client = "None"
  /\ message_handlers = <<>>
  /\ inbox = <<>>
  /\ listen_task = NoListen
  /\ mqcall = NoMqCall

\* a guard that looks at the client only
NotConnectedClientOnly(conn, cl) == cl = "None"

\* `not self._connected or not self.client`
NotConnected(conn, cl) == ~conn \/ cl = "None"

\* what the bridge's steps leave alone
mqFrame ==
  <<regVars, histVars, topicVars, snapshot, wsVars, appVars, hr_devices, tasks, coros, deps,
    quiet, nticks>>

MqEvent(k, by, what) == Event(k, None, 0, by, what)

\* handler loops that start a handler without awaiting it: the loop is back
\* at the wait for the next message while handler h is still running
DispatchSpawned(lt, h) ==
  LET next == {j \in h..Len(message_handlers) :
                 topic_matches(message_handlers[j].pattern, lt.topic)}
  IN IF next = {}
     THEN [lt EXCEPT !.pc = "next", !.h = 0]
     ELSE [lt EXCEPT !.pc = "next", !.h = CHOOSE x \in next : \A y \in next : x <= y,
                     !.ran = @ \cup next]

\* the handler loops of _listen from handler h on, up to the next
\* await handler(...) or back to the wait for the next message
Dispatch(lt, h) ==
  LET next == {j \in h..Len(message_handlers) :
                 topic_matches(message_handlers[j].pattern, lt.topic)}
  IN IF next = {}
     THEN [lt EXCEPT !.pc = "next", !.h = 0]
     ELSE LET j == CHOOSE x \in next : \A y \in next : x <= y
          IN [lt EXCEPT !.pc = "handler", !.h = j, !.ran = @ \cup {j}]

\* a loop without the try around the handler: the exception ends _listen
HandlerRaisedEnds(lt) == [lt EXCEPT !.pc = "done", !.why = "Exception"]

\* _listen when the handler it awaited raised an Exception: caught and
\* printed, the loop goes on with the next handler
HandlerRaised(lt) == Dispatch(lt, lt.h + 1)

\* _listen ended: by CancelledError or MqttError (both swallowed) or by an
\* exception the task keeps
ListenEnds(lt, why) == [lt EXCEPT !.pc = "done", !.why = why]

Connect ==
  /\ mqcall = NoMqCall
  /\ listen_task.pc \in {"none", "done"}
  /\ client' = "made"
  /\ mqcall' = [op |-> "connect", pc |-> "enter", n |-> 0]
  /\ ev' = <<MqEvent("call", "connect", "None")>>
  /\ UNCHANGED <<message_handlers, inbox, listen_task, connected, mqFrame>>

\* after await self.client.__aenter__()
ConnectAfterEnter(ok) ==
  /\ mqcall.op = "connect" /\ mqcall.pc = "enter"
  /\ IF ok
     THEN /\ client' = "entered"
          /\ connected' = TRUE
          /\ mqcall' = [mqcall EXCEPT !.pc = "subscribe", !.n = 1]
          /\ ev' = <<>>
     ELSE /\ connected' = FALSE
          /\ mqcall' = NoMqCall
          /\ ev' = <<MqEvent("return", "connect", "failed")>>
          /\ UNCHANGED client
  /\ UNCHANGED <<message_handlers, inbox, listen_task, mqFrame>>

\* after each await self.client.subscribe(...)
ConnectAfterSubscribe(ok) ==
  /\ mqcall.op = "connect" /\ mqcall.pc = "subscribe"
  /\ IF ~ok
     THEN /\ connected' = FALSE
          /\ mqcall' = NoMqCall
          /\ ev' = <<MqEvent("return", "connect", "failed")>>
          /\ UNCHANGED listen_task
     ELSE IF mqcall.n = 1
     THEN /\ mqcall' = [mqcall EXCEPT !.n = 2]
          /\ ev' = <<>>
          /\ UNCHANGED <<connected, listen_task>>
     ELSE /\ listen_task' = [NoListen EXCEPT !.pc = "next"]
          /\ mqcall' = NoMqCall
          /\ ev' = <<MqEvent("return", "connect", "None")>>
          /\ UNCHANGED connected
  /\ UNCHANGED <<client, message_handlers, inbox, mqFrame>>

Publish ==
  /\ mqcall = NoMqCall
  /\ IF NotConnected(connected, client)
     THEN /\ ev' = <<MqEvent("raise", "publish", "RuntimeError")>>
          /\ UNCHANGED mqcall
     ELSE /\ mqcall' = [op |-> "publish", pc |-> "publish", n |-> 0]
          /\ ev' = <<MqEvent("call", "publish", "None")>>
  /\ UNCHANGED <<client, message_handlers, inbox, listen_task, connected, mqFrame>>

ClearRetained ==
  /\ mqcall = NoMqCall
  /\ IF NotConnected(connected, client)
     THEN /\ ev' = <<MqEvent("return", "clear_retained", "None")>>
          /\ UNCHANGED mqcall
     ELSE /\ mqcall' = [op |-> "clear_retained", pc |-> "publish", n |-> 0]
          /\ ev' = <<MqEvent("call", "clear_retained", "None")>>
  /\ UNCHANGED <<client, message_handlers, inbox, listen_task, connected, mqFrame>>

\* after await self.client.publish(...): the broker took the message, or
\* the client raised MqttError, which neither publish nor clear_retained
\* catches
AfterClientPublish(ok) ==
  /\ mqcall.pc = "publish"
  /\ mqcall' = NoMqCall
  /\ ev' = IF ok
           THEN <<MqEvent("published", mqcall.op, "None"),
                  MqEvent("return", mqcall.op, "None")>>
           ELSE <<MqEvent("raise", mqcall.op, "MqttError")>>
  /\ UNCHANGED <<client, message_handlers, inbox, listen_task, connected, mqFrame>>

\* disconnect up to `await self._listen_task`, or to its end
Disconnect ==
  /\ mqcall = NoMqCall
  /\ IF listen_task.pc # "none"
     THEN /\ listen_task' = IF listen_task.pc = "done" THEN listen_task
                            ELSE [listen_task EXCEPT !.cancelled = TRUE]
          /\ mqcall' = [op |-> "disconnect", pc |-> "await_task", n |-> 0]
          /\ ev' = <<MqEvent("call", "disconnect", "None")>>
          /\ UNCHANGED connected
     ELSE /\ connected' = IF client # "None" THEN FALSE ELSE connected
          /\ ev' = <<MqEvent("return", "disconnect", "None")>>
          /\ UNCHANGED <<listen_task, mqcall>>
  /\ UNCHANGED <<client, message_handlers, inbox, mqFrame>>

\* the awaited task is done: an exception it kept is raised again here,
\* else the client is left and the bridge is not connected
DisconnectResume ==
  /\ mqcall.op = "disconnect" /\ mqcall.pc = "await_task"
  /\ listen_task.pc = "done"
  /\ mqcall' = NoMqCall
  /\ IF listen_task.why \in {"None", "CancelledError", "MqttError"}
     THEN /\ connected' = FALSE
          /\ ev' = <<MqEvent("return", "disconnect", "None")>>
     ELSE /\ ev' = <<MqEvent("raise", "disconnect", listen_task.why)>>
          /\ UNCHANGED connected
  /\ UNCHANGED <<client, message_handlers, inbox, listen_task, mqFrame>>

\* _listen at `async for message in self.client.messages`
ListenNext ==
  /\ listen_task.pc = "next"
  /\ listen_task.cancelled \/ inbox # <<>>
  /\ IF listen_task.cancelled
     THEN /\ listen_task' = ListenEnds(listen_task, "CancelledError")
          /\ ev' = <<>>
          /\ UNCHANGED inbox
     ELSE LET msg == Head(inbox)
              lt == [listen_task EXCEPT !.n = @ + 1, !.topic = msg.topic, !.ran = {}]
          IN /\ inbox' = Tail(inbox)
             /\ IF msg.ok
                THEN /\ listen_task' = Dispatch(lt, 1)
                     /\ ev' = <<MqEvent("decoded", "_listen", "None")>>
                ELSE /\ listen_task' = ListenEnds(lt, "UnicodeDecodeError")
                     /\ ev' = <<MqEvent("raise", "_listen", "UnicodeDecodeError")>>
  /\ UNCHANGED <<client, message_handlers, mqcall, connected, mqFrame>>

\* the connection to the broker is lost: client.messages raises MqttError
ListenLost ==
  /\ listen_task.pc = "next"
  /\ ~listen_task.cancelled
  /\ listen_task' = ListenEnds(listen_task, "MqttError")
  /\ ev' = <<>>
  /\ UNCHANGED <<client, message_handlers, inbox, mqcall, connected, mqFrame>>

\* after await handler(topic, payload)
ListenAfterHandler ==
  /\ listen_task.pc = "handler"
  /\ IF listen_task.cancelled
     THEN /\ listen_task' = ListenEnds(listen_task, "CancelledError")
          /\ ev' = <<>>
     ELSE IF message_handlers[listen_task.h].raises
     THEN /\ listen_task' = HandlerRaised(listen_task)
          /\ ev' = <<MqEvent("caught", "_listen", "Exception")>>
     ELSE /\ listen_task' = Dispatch(listen_task, listen_task.h + 1)
          /\ ev' = <<MqEvent("handled", "_listen", "None")>>
  /\ UNCHANGED <<client, message_handlers, inbox, mqcall, connected, mqFrame>>

(***************************************************************************)
(* The registry driven call by call.                                       *)
(***************************************************************************)
Call(op, d, ret, items, got) ==
  [op |-> op, d |-> d, ret |-> ret, items |-> items, got |-> got,
   pre |-> JDict(EmptyMap)]
NoCall == Call("none", "dev1", "None", <<>>, {})

\* the values an update finds stored (those of a fresh record when there is none)
StoredValues(devs, d) ==
  IF d \in DOMAIN devs THEN devs[d].values ELSE JDict(EmptyMap)

NoScenario == [stage |-> 0, d |-> "dev1", t |-> None]

RegInit ==
  /\ snapshot = <<>>
  /\ emitted = NoEmitted
  /\ devices = <<>>
  /\ deleted_devices = {}
  /\ now = 0
  /\ last = NoCall
  /\ removed = {}
  /\ cleared = {}
  /\ scenario = NoScenario
  /\ nsteps = 0

\* one more step, within the bound on the length of a run
Called == nsteps < MaxSteps /\ nsteps' = nsteps + 1 /\ UNCHANGED nonRegVars

\* time passes between two calls
Advance ==
  /\ now' = now + 1
  /\ last' = Call("advance", "dev1", "None", <<>>, {})
  /\ scenario' = NoScenario
  /\ Called
  /\ UNCHANGED <<devices, deleted_devices, removed, cleared>>

Register(d, info) ==
  LET r == register_device(devices, deleted_devices, d, info, now) IN
  /\ devices' = r.devs
  /\ last' = Call("register", d, r.ret, info, {})
  /\ scenario' = IF r.ret = "True" /\ info = <<>>
                 THEN [stage |-> 1, d |-> d, t |-> None] ELSE NoScenario
  /\ Called
  /\ UNCHANGED <<deleted_devices, now, removed, cleared>>

Update(d, updates) ==
  LET r == update_device(devices, deleted_devices, d, updates, now) IN
  /\ devices' = r.devs
  /\ last' = [Call("update", d, r.ret, updates, {})
                EXCEPT !.pre = StoredValues(devices, d)]
  /\ scenario' = IF /\ scenario.stage = 1 /\ scenario.d = d
                    /\ Len(updates) = 1 /\ updates[1].key = "type"
                 THEN [stage |-> 2, d |-> d, t |-> updates[1].t] ELSE NoScenario
  /\ Called
  /\ UNCHANGED <<deleted_devices, now, removed, cleared>>

MarkOffline(d) ==
  /\ devices' = mark_offline(devices, d)
  /\ last' = Call("mark_offline", d, "None", <<>>, {})
  /\ scenario' = NoScenario
  /\ Called
  /\ UNCHANGED <<deleted_devices, now, removed, cleared>>

Get(d) ==
  /\ last' = Call("get", d, "None", <<>>, get_device(devices, d))
  /\ scenario' = IF scenario.stage = 2 /\ scenario.d = d
                 THEN [scenario EXCEPT !.stage = 3] ELSE NoScenario
  /\ Called
  /\ UNCHANGED <<regVars, removed, cleared>>

Remove(d) ==
  LET r == remove_device(devices, deleted_devices, d) IN
  /\ devices' = r.devs
  /\ deleted_devices' = r.del
  /\ last' = Call("remove", d, "None", <<>>, {})
  /\ removed' = removed \cup {d}
  /\ cleared' = cleared \ {d}
  /\ scenario' = NoScenario
  /\ Called
  /\ UNCHANGED now

ClearDeleted(d) ==
  /\ deleted_devices' = clear_deleted(deleted_devices, d)
  /\ last' = Call("clear_deleted", d, "None", <<>>, {})
  /\ cleared' = cleared \cup (removed \cap {d})
  /\ removed' = removed \ {d}
  /\ scenario' = NoScenario
  /\ Called
  /\ UNCHANGED <<devices, now>>

ClearAllDeleted ==
  /\ deleted_devices' = clear_all_deleted(deleted_devices)
  /\ last' = Call("clear_all_deleted", "dev1", "None", <<>>, {})
  /\ cleared' = cleared \cup removed
  /\ removed' = {}
  /\ scenario' = NoScenario
  /\ Called
  /\ UNCHANGED <<devices, now>>

RegNext ==
  \/ Advance
  \/ \E d \in DeviceIds, info \in InfoArgs : Register(d, info)
  \/ \E d \in DeviceIds, u \in UpdateArgs : Update(d, u)
  \/ \E d \in DeviceIds : MarkOffline(d)
  \/ \E d \in DeviceIds : Get(d)
  \/ \E d \in DeviceIds : Remove(d)
  \/ \E d \in DeviceIds : ClearDeleted(d)
  \/ ClearAllDeleted

\* get_all_devices(): a new list of the registry's own records, by device
\* id: what each record held when the list was returned (was), what it holds
\* now (cur), and whether it is still the record the registry keeps (attached)
get_all_devices(devs) ==
  [d \in DOMAIN devs |-> [was |-> devs[d], cur |-> devs[d], attached |-> TRUE]]

\* the returned list after a registry call: the call changed the records it
\* kept in place, and a record it popped is no longer the registry's
Aliased(snap, devs1) ==
  [d \in DOMAIN snap |->
     IF snap[d].attached /\ d \in DOMAIN devs1
     THEN [snap[d] EXCEPT !.cur = devs1[d]]
     ELSE [snap[d] EXCEPT !.attached = FALSE]]

\* a registry call made while a caller holds the list: the clock moves on
Held(devs1, del1) ==
  /\ nsteps < MaxSteps
  /\ nsteps' = nsteps + 1
  /\ now' = now + 1
  /\ devices' = devs1
  /\ deleted_devices' = del1
  /\ snapshot' = Aliased(snapshot, devs1)
  /\ UNCHANGED <<last, removed, cleared, scenario, emitted, topicVars, mqVars, wsVars, hrVars,
                 appVars>>

GetAll ==
  /\ nsteps < MaxSteps
  /\ nsteps' = nsteps + 1
  /\ snapshot' = get_all_devices(devices)
  /\ UNCHANGED <<regVars, last, removed, cleared, scenario, emitted, topicVars, mqVars, wsVars, hrVars,
                 appVars>>

HeldRegister(d, info) ==
  Held(register_device(devices, deleted_devices, d, info, now).devs, deleted_devices)

HeldUpdate(d, updates) ==
  Held(update_device(devices, deleted_devices, d, updates, now).devs, deleted_devices)

HeldMarkOffline(d) ==
  Held(mark_offline(devices, d), deleted_devices)

HeldRemove(d) ==
  LET r == remove_device(devices, deleted_devices, d) IN Held(r.devs, r.del)

HeldClearDeleted(d) ==
  Held(devices, clear_deleted(deleted_devices, d))

SnapshotNext ==
  \/ GetAll
  \/ \E d \in DeviceIds, info \in InfoArgs : HeldRegister(d, info)
  \/ \E d \in DeviceIds, u \in UpdateArgs : HeldUpdate(d, u)
  \/ \E d \in DeviceIds : HeldMarkOffline(d)
  \/ \E d \in DeviceIds : HeldRemove(d)
  \/ \E d \in DeviceIds : HeldClearDeleted(d)

InitRegistry == RegInit /\ TopicIdle /\ WsIdle /\ HrIdle /\ AppIdle /\ MqIdle

SpecRegistry == InitRegistry /\ [][RegNext]_vars

\* the registry while a caller holds the list get_all_devices() returned
SpecSnapshot == InitRegistry /\ [][SnapshotNext]_vars

TopicNext == Match

InitTopic == RegInit /\ TopicInit /\ WsIdle /\ HrIdle /\ AppIdle /\ MqIdle

InitWs == RegInit /\ TopicIdle /\ WsIdle /\ HrIdle /\ AppIdle /\ MqIdle

SpecWs == InitWs /\ [][WsNext]_vars

SpecTopic == InitTopic /\ [][TopicNext]_vars

\* the registry, the bridge and the subscribers the manager may find: a
\* registered device, one whose values a telemetry message set to a list, or
\* a tombstone; connected or not; one subscriber, whose peer may be gone
InitHr ==
  /\ \E r \in {"plain", "list", "deleted"} :
       /\ devices =
            LET reg == register_device(<<>>, {}, "dev1", <<TypeItem("heart_rate")>>, 0).devs
            IN IF r = "plain" THEN reg
               ELSE IF r = "list"
               THEN update_device(reg, {}, "dev1", <<ValuesItem(JList)>>, 0).devs
               ELSE <<>>
       /\ deleted_devices = IF r = "deleted" THEN {"dev1"} ELSE {}
  /\ now = 0
  /\ last = NoCall
  /\ removed = deleted_devices
  /\ cleared = {}
  /\ scenario = NoScenario
  /\ snapshot = <<>>
  /\ emitted = NoEmitted
  /\ nsteps = 0
  /\ TopicIdle
  /\ active_connections = <<1>>
  /\ sock = [s \in Sockets |-> IF s = 1 THEN "open" ELSE "new"]
  /\ gone \in SUBSET {1}
  /\ rounds = [r \in 1..MaxRounds |-> NoFrame]
  /\ banned = {}
  /\ hr_devices = <<>>
  /\ tasks = <<>>
  /\ coros = [c \in 1..MaxInflight |-> NoCoro]
  /\ connected \in BOOLEAN
  /\ deps = NoDeps
  /\ ev = <<>>
  /\ quiet = [d \in DeviceIds |-> FALSE]
  /\ nticks = 0
  /\ AppIdle
  /\ MqIdle

HrNext ==
  \/ \E w \in BOOLEAN : SetDependencies(w)
  \/ \E d \in HrIds, target \in TargetArgs \cup {NoTarget} : Enable(d, target)
  \/ \E c \in 1..MaxInflight, d \in HrIds : Disable(c, d)
  \/ \E c \in 1..MaxInflight : DisableResume(c)
  \/ \E c \in 1..MaxInflight, d \in HrIds, target \in TargetArgs, fails \in BOOLEAN :
       SetTarget(c, d, target, fails)
  \/ \E c \in 1..MaxInflight : SetTargetAfterPublish(c)
  \/ \E c \in 1..MaxInflight : SetTargetAfterDelivery(c)
  \/ \E t \in 1..MaxTasks : TaskCancelled(t)
  \/ \E t \in 1..MaxTasks : TaskExit(t)
  \/ \E t \in 1..MaxTasks, off \in Offsets, fails \in BOOLEAN : TaskTick(t, off, fails)
  \/ \E t \in 1..MaxTasks : TaskAfterPublish(t)
  \/ \E t \in 1..MaxTasks : TaskAfterDelivery(t)

SpecHr == InitHr /\ [][HrNext]_vars

\* the application with one registered device and two subscribers, the
\* bridge connected or not, the peer of the first subscriber gone or not
InitApp ==
  /\ devices = register_device(<<>>, {}, "dev1", <<TypeItem("heart_rate")>>, 0).devs
  /\ deleted_devices = {}
  /\ now = 0
  /\ last = NoCall
  /\ removed = {}
  /\ cleared = {}
  /\ scenario = NoScenario
  /\ snapshot = <<>>
  /\ emitted = NoEmitted
  /\ nsteps = 0
  /\ TopicIdle
  /\ active_connections = <<1, 2>>
  /\ sock = [s \in Sockets |-> IF s <= 2 THEN "open" ELSE "new"]
  /\ gone \in SUBSET {1}
  /\ rounds = [r \in 1..MaxRounds |-> NoFrame]
  /\ banned = {}
  /\ hr_devices = <<>>
  /\ tasks = <<>>
  /\ coros = [c \in 1..MaxInflight |-> NoCoro]
  /\ connected \in BOOLEAN
  /\ deps = NoDeps
  /\ ev = <<>>
  /\ quiet = [d \in DeviceIds |-> FALSE]
  /\ nticks = 0
  /\ AppIdle
  /\ MqIdle

AppNext ==
  \/ \E d \in AppIds, p \in StatusPayloads : HandleStatus(d, p)
  \/ \E d \in AppIds, p \in ValuesPayloads : HandleValues(d, p)
  \/ HandlerAfterDelivery
  \/ \E c \in 1..MaxRoutes, d \in AppIds : DeleteDevice(c, d)
  \/ \E c \in 1..MaxRoutes, fails \in BOOLEAN : DeleteAfterClear(c, fails)
  \/ \E c \in 1..MaxRoutes : DeleteAfterDelivery(c)

SpecApp == InitApp /\ [][AppNext]_vars

\* the targets a request may carry: Field(ge=30, le=220)
RampTargets == {MinHr, DefaultTarget, 75, MaxHr}

\* one generator just started by enable(d, t1) and retargeted by
\* enable(d, t2) before its first pass; the manager wired or not
InitTick ==
  /\ devices = register_device(<<>>, {}, "dev1", <<TypeItem("heart_rate")>>, 0).devs
  /\ deleted_devices = {}
  /\ now = 0
  /\ last = NoCall
  /\ removed = {}
  /\ cleared = {}
  /\ scenario = NoScenario
  /\ snapshot = <<>>
  /\ emitted = NoEmitted
  /\ nsteps = 0
  /\ TopicIdle
  /\ active_connections = <<1>>
  /\ sock = [s \in Sockets |-> IF s = 1 THEN "open" ELSE "new"]
  /\ gone = {}
  /\ rounds = [r \in 1..MaxRounds |-> NoFrame]
  /\ banned = {}
  /\ \E t1, t2 \in RampTargets :
       hr_devices = ("dev1" :> [HRDeviceState(t1) EXCEPT !.target = t2, !.enabled = TRUE,
                                                        !.task = 1])
  /\ tasks = <<NewTask("dev1")>>
  /\ coros = [c \in 1..MaxInflight |-> NoCoro]
  /\ connected \in BOOLEAN
  /\ deps \in {NoDeps, Deps(TRUE, TRUE, TRUE)}
  /\ ev = <<>>
  /\ quiet = [d \in DeviceIds |-> FALSE]
  /\ nticks = 0
  /\ AppIdle
  /\ MqIdle

TickNext ==
  \/ \E t \in 1..MaxTasks, off \in Offsets, fails \in BOOLEAN : TaskTick(t, off, fails)
  \/ \E t \in 1..MaxTasks : TaskAfterPublish(t)
  \/ \E t \in 1..MaxTasks : TaskAfterDelivery(t)

SpecTick == InitTick /\ [][TickNext]_vars

\* delete_device next to the simulation: enable calls and the generator
\* tasks run between its steps
DeleteNext ==
  \/ \E w \in BOOLEAN : SetDependencies(w)
  \/ \E d \in HrIds, target \in TargetArgs \cup {NoTarget} : Enable(d, target)
  \/ \E c \in 1..MaxInflight, d \in HrIds : Disable(c, d)
  \/ \E c \in 1..MaxInflight : DisableResume(c)
  \/ \E t \in 1..MaxTasks : TaskCancelled(t)
  \/ \E t \in 1..MaxTasks : TaskExit(t)
  \/ \E t \in 1..MaxTasks, off \in Offsets, fails \in BOOLEAN : TaskTick(t, off, fails)
  \/ \E t \in 1..MaxTasks : TaskAfterPublish(t)
  \/ \E t \in 1..MaxTasks : TaskAfterDelivery(t)
  \/ \E c \in 1..MaxRoutes, d \in AppIds : DeleteDevice(c, d)
  \/ \E c \in 1..MaxRoutes : DeleteAfterDisable(c)
  \/ \E c \in 1..MaxRoutes, fails \in BOOLEAN : DeleteAfterClear(c, fails)
  \/ \E c \in 1..MaxRoutes : DeleteAfterDelivery(c)

SpecDelete == InitApp /\ [][DeleteNext]_vars

\* the operations that send a command to a device, the manager wired to
\* the bridge, the registry and the broadcaster or left as constructed
ControlNext ==
  \/ \E c \in 1..MaxRoutes, op \in ControlOps, d \in AppIds : ControlRoute(c, op, d)
  \/ \E c \in 1..MaxRoutes, fails \in BOOLEAN : ControlAfterPublish(c, fails)
  \/ \E w \in BOOLEAN : SetDependencies(w)
  \/ \E c \in 1..MaxInflight, d \in HrIds, target \in TargetArgs, fails \in BOOLEAN :
       SetTarget(c, d, target, fails)
  \/ \E c \in 1..MaxInflight : SetTargetAfterPublish(c)
  \/ \E c \in 1..MaxInflight : SetTargetAfterDelivery(c)

SpecControl == InitApp /\ [][ControlNext]_vars

\* the bridge before connect(), with the handlers registered and the
\* messages the broker will deliver
InitMqtt ==
  /\ RegInit /\ TopicIdle /\ WsIdle /\ HrIdle /\ AppIdle
  /\ client = "None"
  /\ message_handlers \in [1..MaxHandlers -> Handlers]
  /\ inbox \in [1..MaxMsgs -> Messages]
  /\ listen_task = NoListen
  /\ mqcall = NoMqCall

MqttNext ==
  \/ Connect
  \/ \E ok \in BOOLEAN : ConnectAfterEnter(ok)
  \/ \E ok \in BOOLEAN : ConnectAfterSubscribe(ok)
  \/ Publish
  \/ ClearRetained
  \/ \E ok \in BOOLEAN : AfterClientPublish(ok)
  \/ Disconnect
  \/ DisconnectResume
  \/ ListenNext
  \/ ListenLost
  \/ ListenAfterHandler

SpecMqtt == InitMqtt /\ [][MqttNext]_vars

(***************************************************************************)
(* Properties of the registry.                                             *)
(***************************************************************************)
\* the step just taken is a call of `op` on d
Did(op, d) == nsteps' = nsteps + 1 /\ last'.op = op /\ last'.d = d

\* an updates dict that holds a values dict and nothing else
ValuesOnly(items) ==
  Len(items) = 1 /\ items[1].key = "values" /\ IsDict(items[1].j)

\* C1: from remove(d) until clear_tombstone(d) or clear_all_tombstones(),
\* every register(d) and update(d) returns not-accepted and the registry
\* holds no record for d.
C1_TombstoneRejects ==
  \A d \in removed :
    /\ d \notin DOMAIN devices
    /\ (last.op \in {"register", "update"} /\ last.d = d) => last.ret = "False"

C1_Witness ==
  /\ last.op = "update" /\ last.d \in removed /\ last.ret = "False"
  /\ DOMAIN devices # {}

\* C2: once the tombstone of a removed d is cleared (by clear_tombstone(d) or
\* clear_all_tombstones()), a register(d) is accepted and creates a record;
\* clear_tombstone(d) removes d's tombstone only and creates no record.
C2_ClearAllowsRegister ==
  [][\A d \in DeviceIds :
       /\ (Did("register", d) /\ d \in cleared')
            => (last'.ret = "True" /\ d \in DOMAIN devices')
       /\ Did("clear_deleted", d)
            => (/\ deleted_devices' = deleted_devices \ {d}
                /\ devices' = devices)]_vars

C2_Witness ==
  /\ last.op = "register" /\ last.d \in cleared /\ last.ret = "True"
  /\ last.d \in DOMAIN devices

\* C3 as stated: update(d, {values: A}) then update(d, {values: B}) leaves
\* d.values equal to A overridden key by key by B.
C3_ValuesAreAThenB ==
  [][\A d \in DeviceIds :
       (/\ last.op = "update" /\ last.d = d /\ last.ret = "True"
        /\ ValuesOnly(last.items)
        /\ Did("update", d) /\ ValuesOnly(last'.items))
       => (/\ d \in DOMAIN devices'
           /\ devices'[d].values
                = JDict(DictUpdate(last.items[1].j.m, last'.items[1].j.m)))]_vars

\* C3 amended: the two updates leave d.values equal to the mapping stored
\* before them (empty for a new record or falsy stored values) overridden by
\* A and then by B; a values dict applied to stored values that are a truthy
\* non-mapping raises and leaves them as they were; every other field of an
\* accepted update overwrites the stored field.
C3_MergeOntoStored ==
  [][\A d \in DeviceIds :
       /\ (/\ last.op = "update" /\ last.d = d /\ last.ret = "True"
            /\ ValuesOnly(last.items)
            /\ Did("update", d) /\ ValuesOnly(last'.items))
          => LET V == IF Truthy(last.pre) THEN last.pre.m ELSE EmptyMap
                 A == last.items[1].j.m
                 B == last'.items[1].j.m
             IN /\ last'.ret = "True"
                /\ devices'[d].values = JDict(DictUpdate(DictUpdate(V, A), B))
       /\ (Did("update", d) /\ ValuesOnly(last'.items) /\ d \notin deleted_devices)
          => IF Truthy(StoredValues(devices, d)) /\ ~IsDict(StoredValues(devices, d))
             THEN last'.ret = "raise" /\ devices'[d].values = devices[d].values
             ELSE last'.ret = "True"
       /\ (Did("update", d) /\ last'.ret = "True")
          => \A i \in 1..Len(last'.items) :
               LET it == last'.items[i] IN
               /\ it.key = "type" => devices'[d].type = it.t
               /\ it.key = "online" => devices'[d].online = it.b
               /\ (it.key = "values" /\ ~IsDict(it.j)) => devices'[d].values = it.j]_vars

C3_Witness ==
  /\ last.op = "update" /\ last.ret = "True" /\ ValuesOnly(last.items)
  /\ Truthy(last.pre) /\ IsDict(last.pre)
  /\ last.d \in DOMAIN devices
  /\ devices[last.d].values = JDict(MapAB(1, 2))
  /\ last.items[1].j.m = MapAB(0, 2)

\* C4: register(d) on an unknown, non-tombstoned id creates a record with
\* online = true, type unset and empty values; on an existing record it sets
\* online = true and last-seen to now and leaves every other field; and
\* register(d), update(d, {type: t}), get(d) returns type = t, online = true.
C4_RegisterCreatesOrRefreshes ==
  [][\A d \in DeviceIds :
       /\ (Did("register", d) /\ last'.items = <<>> /\ d \notin deleted_devices)
          => /\ last'.ret = "True"
             /\ d \in DOMAIN devices'
             /\ IF d \notin DOMAIN devices
                THEN /\ devices'[d].online = TRUE
                     /\ devices'[d].type = None
                     /\ devices'[d].values = JDict(EmptyMap)
                     /\ devices'[d].first_seen = now
                     /\ devices'[d].last_seen = now
                ELSE devices'[d]
                       = [devices[d] EXCEPT !.online = TRUE, !.last_seen = now]
       /\ (scenario'.stage = 3 /\ scenario'.d = d)
          => \E r \in last'.got :
               /\ last'.got = {r}
               /\ r.type = scenario'.t
               /\ r.online = TRUE]_vars

C4_Witness ==
  /\ scenario.stage = 3 /\ scenario.t = "heart_rate"
  /\ last.op = "get" /\ last.got # {}

(***************************************************************************)
(* Properties of the topic matcher.                                        *)
(***************************************************************************)
HasHash(pp) == \E i \in 1..Len(pp) : pp[i] = "#"
FirstHash(pp) ==
  IF HasHash(pp) THEN CHOOSE i \in 1..Len(pp) :
                        pp[i] = "#" /\ \A k \in 1..(i - 1) : pp[k] # "#"
  ELSE Len(pp) + 1

\* C5: matches(pattern, topic) is true exactly when every pattern segment
\* before the first "#" has a corresponding topic segment that is equal to it
\* or is matched by "+", and the pattern holds "#" or has as many segments as
\* the topic.
C5_MatchesAsSpecified ==
  matched # "None" =>
    ((matched = "True") <=>
       (/\ \A i \in 1..(FirstHash(pattern) - 1) :
             i <= Len(topic) /\ (pattern[i] = "+" \/ pattern[i] = topic[i])
        /\ (HasHash(pattern) \/ Len(pattern) = Len(topic))))

(***************************************************************************)
(* Properties of the broadcaster.                                          *)
(***************************************************************************)
\* round r ends with this step
RoundEnds(r) == rounds[r].pc = "send" /\ rounds'[r].pc = "done"

\* round r starts a delivery with this step
RoundSends(r) == rounds'[r].pc = "send" /\ rounds'[r] # rounds[r]

\* C10: a subscriber whose delivery fails is out of the live set once the
\* round completes, no round started after that one sends to it, and every
\* other subscriber of the set still receives the message in the same round.
C10_FailureIsolated ==
  [][\A r \in 1..MaxRounds :
       /\ RoundEnds(r)
          => /\ Range(rounds'[r].failed) \cap Range(active_connections') = {}
             /\ rounds'[r].failed # <<>>
                => \A s \in (rounds'[r].start \cap Range(active_connections))
                              \ Range(rounds'[r].failed) :
                     s \in rounds'[r].got
       /\ RoundSends(r) => rounds'[r].cur \notin rounds'[r].born]_vars

\* C11: whatever connects, disconnects or broadcasts while a round is
\* suspended in a delivery, every subscriber that is in the live set from the
\* start of the round to its end and whose delivery does not fail has been
\* sent the message when the round ends, and is never sent it a second time.
C11_DeliveredOnce ==
  [][\A r \in 1..MaxRounds :
       /\ RoundEnds(r)
          => \A s \in (rounds'[r].start \cap Range(active_connections))
                        \ Range(rounds'[r].failed) :
               s \in rounds'[r].got
       /\ (RoundSends(r) /\ rounds[r].pc = "send")
          => rounds'[r].cur \notin rounds'[r].got]_vars

(***************************************************************************)
(* The simulation manager.                                                 *)
(***************************************************************************)
\* the parts of a simulation emission
EmissionKinds == {"publish", "registry", "broadcast", "deliver"}

\* the step made a generator task emit for d
TaskEmits(d) ==
  \E i \in 1..Len(ev') :
    ev'[i].d = d /\ ev'[i].by = "task" /\ ev'[i].k \in EmissionKinds

\* C6: once disable(d) has returned and until enable(d) is called again, no
\* generator task performs a publish, a registry update or an hr_update
\* broadcast for d.
C6_QuietAfterDisable == [][\A d \in HrIds : quiet[d] => ~TaskEmits(d)]_vars

\* a generator that can still run: not ended and with no cancellation pending
Running(t) == ~Done(t) /\ ~t.cancel

Generators(d) == {t \in 1..Len(tasks) : tasks[t].dev = d /\ Running(tasks[t])}

\* C7: in every reachable state at most one generator task is alive per
\* device, so that no two generators emit for one device concurrently.
C7_OneGenerator == \A d \in HrIds : Cardinality(Generators(d)) <= 1

\* the return of a set_target call in the step, if any
SetTargetReturns == {i \in 1..Len(ev') : ev'[i].k = "return" /\ ev'[i].by = "set_target"}

\* the step belongs to a set_target call
SetTargetStep == \E i \in 1..Len(ev') : ev'[i].by \in {"set_target", "call"}

\* what one _send_hr emits, without the deliveries of its broadcast
OneEmission ==
  IF connected THEN <<"publish", "registry", "broadcast">>
  ELSE <<"registry", "broadcast">>

NotDeliver(k) == k # "deliver"

\* the step wrote v as heart rate of d whenever it updated the registry for a call
RegistryCarries ==
  \A i \in 1..Len(ev') :
    (ev'[i].k = "registry" /\ ev'[i].by = "call" /\ ev'[i].d \in DOMAIN devices')
      => /\ ev'[i].v = coros[ev'[i].id].target \/ coros[ev'[i].id].pc = "idle"
         /\ IsDict(devices'[ev'[i].d].values)
         /\ devices'[ev'[i].d].values.m["heart_rate"] = ev'[i].v

\* C8: set_target(d, T) called while d's simulation is disabled has performed
\* exactly one emission, with the value T, when it returns, and creates no
\* task; called while it is enabled it sets the target and emits nothing.
C8_SetTargetEmitsOnce ==
  [][/\ \A i \in SetTargetReturns :
          IF ev'[i].flag
          THEN /\ ev'[i].trace = <<>>
               /\ hr_devices'[ev'[i].d].target = ev'[i].v
          ELSE SelectSeq(ev'[i].trace, NotDeliver) = OneEmission
     /\ RegistryCarries
     /\ SetTargetStep => Len(tasks') = Len(tasks)]_vars

\* C9: get_state(d) right after enable(d, T) gives enabled = true and
\* target = T, whether d had a simulation state or not.
C9_EnableThenGetState ==
  [][\A d \in HrIds, T \in TargetArgs :
       ev' = <<Event("enable", d, T, "enable", 0)>>
         => /\ get_state(hr_devices', d).enabled
            /\ get_state(hr_devices', d).target = T]_vars

\* enable(d, 75) has just returned on a device whose state held target 70
\* and whose generator kept running
C9_Witness ==
  /\ ev = <<Event("enable", "dev1", 75, "enable", 0)>>
  /\ get_state(hr_devices, "dev1") = [enabled |-> TRUE, target |-> 75, current |-> 70]
  /\ Len(tasks) = 1
  /\ nsteps >= 2

(***************************************************************************)
(* Properties of the telemetry handlers and the routes.                    *)
(***************************************************************************)
\* the device_update messages the step delivered
Updates == {i \in 1..Len(ev') : ev'[i].k = "device_update"}

\* C12: a subscriber that was sent device_deleted for d is sent no
\* device_update for d while d is tombstoned, and every device_update that is
\* sent holds the record of a device that exists.
C12_DeletedStaysDeleted ==
  [][\A i \in Updates :
       /\ ev'[i].flag
       /\ ~(<<ev'[i].v, ev'[i].d>> \in told /\ ev'[i].d \in deleted_devices)]_vars

PublishCalled ==
  mqcall = NoMqCall /\ ev' # <<>> /\ ev'[1].by = "publish" /\ ev'[1].k \in {"call", "raise"}
ConnectFailed ==
  mqcall.op = "connect" /\ mqcall' = NoMqCall /\ listen_task' = listen_task

\* C13: publish called while the bridge is not connected raises the
\* not-connected RuntimeError and neither sends anything to the broker nor
\* leaves a client publish in flight; no step of connect raises, and a
\* connect that returns after __aenter__ or a subscribe failed leaves
\* _connected false.
C13_NotConnectedRejected ==
  [][/\ (PublishCalled /\ ~connected)
        => /\ ev' = <<MqEvent("raise", "publish", "RuntimeError")>>
           /\ mqcall' = NoMqCall
     /\ mqcall.op = "connect" => \A i \in 1..Len(ev') : ev'[i].k # "raise"
     /\ ConnectFailed => ~connected']_vars

\* publish was rejected after a connect whose __aenter__ failed
C13_Witness ==
  /\ ev = <<MqEvent("raise", "publish", "RuntimeError")>>
  /\ client = "made"
  /\ ~connected

\* C14: clear_retained never raises to its caller, neither when the bridge
\* is not connected nor when the client's publish fails.
C14_ClearRetainedNeverRaises ==
  [][\A i \in 1..Len(ev') : ~(ev'[i].k = "raise" /\ ev'[i].by = "clear_retained")]_vars

\* C15: a payload that cannot be decoded never terminates the listen loop:
\* _listen ends only by cancellation or by the loss of the connection, so
\* the messages after an undecodable one are still taken.
C15_UndecodableDropped ==
  listen_task.pc = "done" => listen_task.why \in {"CancelledError", "MqttError"}

Matching(t) ==
  {j \in 1..Len(message_handlers) : topic_matches(message_handlers[j].pattern, t)}
Raised ==
  /\ listen_task.pc = "handler"
  /\ ~listen_task.cancelled
  /\ message_handlers[listen_task.h].raises

\* C16: when the handler being awaited raises, the listen loop does not
\* end, and whenever the loop is back at the wait for the next message
\* every handler whose pattern matches the topic of the message just
\* dispatched was invoked for it.
C16_HandlerFailureIsolated ==
  [][/\ Raised => listen_task'.pc \in {"handler", "next"}
     /\ (listen_task'.pc = "next" /\ listen_task'.n > 0)
          => Matching(listen_task'.topic) \subseteq listen_task'.ran]_vars

\* the first handler matches every topic and raises; for the second
\* message the second handler was invoked after it as well, and the loop is
\* back at the wait for the next message
C16_Witness ==
  /\ listen_task.n = 2
  /\ listen_task.pc = "next"
  /\ listen_task.ran = {1, 2}
  /\ message_handlers[1] = [pattern |-> <<"#">>, raises |-> TRUE]

\* C17: while the bridge is not connected no control operation reports
\* success (a 200 of configure_device, set_device_values or disconnect_ble,
\* or set_target returning to the hr-target route, which then answers
\* "ok"), and an operation answered with 503 changes no registry record.
C17_DisconnectedRejects ==
  [][~connected =>
       \A i \in 1..Len(ev') :
         /\ ~(ev'[i].k = "response" /\ ev'[i].by \in ControlOps /\ ev'[i].v = 200)
         /\ ~(ev'[i].k = "return" /\ ev'[i].by = "set_target")
         /\ (ev'[i].k = "response" /\ ev'[i].v = 503) => devices' = devices]_vars

\* the step ends a delete_device(d) call with its 200 response
DeleteReturns(d) ==
  \E i \in 1..Len(ev') :
    ev'[i].k = "response" /\ ev'[i].by = "delete_device" /\ ev'[i].d = d /\ ev'[i].v = 200

\* delete_device(d) has removed the record and is still broadcasting
DeleteRemoved(d) ==
  \E c \in 1..MaxRoutes :
    routes[c].op = "delete_device" /\ routes[c].dev = d /\ routes[c].pc = "send"

\* C18: when delete_device(d) returns no generator task for d is alive, and
\* between the removal of the record and the return of delete_device no
\* generator task emits for d.
C18_DeleteStopsSimulation ==
  [][\A d \in AppIds :
       /\ DeleteReturns(d) => \A t \in 1..Len(tasks') : tasks'[t].dev = d => Done(tasks'[t])
       /\ DeleteRemoved(d) => ~TaskEmits(d)]_vars

\* the responses of delete_device(d) in the step
DeleteResponses(d) ==
  {i \in 1..Len(ev') :
     ev'[i].k = "response" /\ ev'[i].by = "delete_device" /\ ev'[i].d = d}

\* C19: delete_device(d) answers 404 only when it found no record for d;
\* every other call ends with 200, the record for d removed and d in the
\* tombstone set, whatever the clear_retained calls and the deliveries of
\* the device_deleted broadcast did.
C19_DeleteAlwaysRemoves ==
  [][\A d \in AppIds : \A i \in DeleteResponses(d) :
       IF ev'[i].v = 404
       THEN d \notin DOMAIN devices /\ routes[ev'[i].id].pc = "idle"
       ELSE /\ ev'[i].v = 200
            /\ d \notin DOMAIN devices'
            /\ d \in deleted_devices']_vars

\* delete_device returned 200 although the bridge was connected, a
\* clear_retained failed (the call took four steps and not five) and the
\* delivery to the first subscriber failed
C19_Witness ==
  /\ \E i \in 1..Len(ev) :
       ev[i].k = "response" /\ ev[i].by = "delete_device" /\ ev[i].v = 200
  /\ connected
  /\ nsteps = 4
  /\ 1 \in banned
  /\ "dev1" \in deleted_devices /\ "dev1" \notin DOMAIN devices

\* C20: a failure raised while a generator tick emits is recovered inside
\* the loop, so in every reachable state a device whose simulation is
\* enabled has a generator task that has not ended.
C20_EnabledHasGenerator ==
  \A d \in DOMAIN hr_devices :
    hr_devices[d].enabled => \E t \in 1..Len(tasks) : tasks[t].dev = d /\ ~Done(tasks[t])

\* the step left the target and the tracked value of d as they were
SameSimulation(d) ==
  /\ hr_devices'[d].target = hr_devices[d].target
  /\ hr_devices'[d].float_hr = hr_devices[d].float_hr

\* C21: a step of disable(d) and a step of enable(d) without a target leave
\* the target and the tracked value of d unchanged, and while d stays
\* disabled its tracked value does not move, so that the generator started
\* by the later enable goes on from the target and value kept.
C21_StateSurvivesDisable ==
  [][\A d \in DOMAIN hr_devices :
       /\ (ev' # <<>> /\ ev'[1].d = d /\ ev'[1].by = "disable") => SameSimulation(d)
       /\ (ev' # <<>> /\ ev'[1].d = d /\ ev'[1].k = "enable" /\ ev'[1].v = NoTarget)
            => SameSimulation(d)
       /\ (~hr_devices[d].enabled /\ ~hr_devices'[d].enabled)
            => hr_devices'[d].float_hr = hr_devices[d].float_hr]_vars

\* enable("dev1") without a target after a disable that cancelled the first
\* generator and returned: the target is still 75 and the tracked value is where the
\* first generator left it
C21_Witness ==
  /\ ev # <<>> /\ ev[1].k = "enable" /\ ev[1].v = NoTarget
  /\ Len(tasks) = 2 /\ Done(tasks[1]) /\ ~tasks[1].exc
  /\ \A c \in 1..MaxInflight : coros[c].pc = "idle"
  /\ "dev1" \in DOMAIN hr_devices
  /\ hr_devices["dev1"].task = 2
  /\ hr_devices["dev1"].target = 75
  /\ hr_devices["dev1"].float_hr # 75 * FloatDen

\* the step is a pass of the loop of generator t
TickOf(t) == ev' # <<>> /\ ev'[1].k = "tick" /\ ev'[1].id = t

\* the parts of an emission generator t performed in the step
EmissionsBy(t) ==
  {i \in 1..Len(ev') : ev'[i].by = "task" /\ ev'[i].id = t /\ ev'[i].k \in EmissionKinds}

\* C22: every value a generator emits lies in 30..220; a pass of its loop
\* emits only the rounded clamped value it computed and only when that
\* differs from the value the generator emitted last, and the later parts
\* of an emission carry the value of the pass that started it.
C22_EmitsOnChange ==
  [][\A t \in 1..Len(tasks) : \A i \in EmissionsBy(t) :
       /\ ev'[i].v \in MinHr..MaxHr
       /\ TickOf(t) => ev'[i].v = ev'[1].v /\ ev'[i].v # tasks[t].last_sent
       /\ ~TickOf(t) => ev'[i].v = tasks[t].last_sent]_vars

\* the second pass of a generator emitted: its value differs from the one
\* the first pass emitted
C22_Witness ==
  /\ nticks = 2
  /\ ev # <<>> /\ ev[1].k = "tick"
  /\ \E i \in 1..Len(ev) : ev[i].k \in EmissionKinds /\ ev[i].v = tasks[1].last_sent
  /\ deps = Deps(TRUE, TRUE, TRUE)

\* C23: a pass of the generator loop moves the tracked value toward the
\* ideal value target + offset, never away from it and never past it, by
\* exactly 1 unit when the gap exceeds 3 units and by 0.2 times the gap
\* otherwise, hence by at most 1 unit.
C23_BoundedRamp ==
  [][\A t \in 1..Len(tasks) :
       TickOf(t) =>
         LET st == hr_devices[tasks[t].dev]
             f == st.float_hr
             g == hr_devices'[tasks[t].dev].float_hr
         IN \E off \in Offsets :
              LET ideal == (st.target + off) * FloatDen
                  gap == Abs(ideal - f)
                  move == Abs(g - f)
              IN /\ g = TickFloat(st, off)
                 /\ move <= FloatDen
                 /\ Abs(ideal - g) = gap - move
                 /\ IF gap > 3 * FloatDen THEN move = FloatDen ELSE 5 * move = gap]_vars

\* two passes after the target went from 220 to 30: the tracked value came
\* down by one unit per pass
C23_Witness ==
  /\ nticks = 2
  /\ "dev1" \in DOMAIN hr_devices
  /\ hr_devices["dev1"].target = MinHr
  /\ hr_devices["dev1"].float_hr = (MaxHr - 2) * FloatDen

\* C24: the listen loop takes the next inbound message only when no
\* handler of the message before it is still being awaited and every
\* handler matching that message was invoked, so the handlers of two
\* messages, and the registry updates they make, never interleave.
C24_OneMessageAtATime ==
  [][listen_task'.n > listen_task.n =>
       /\ listen_task'.n = listen_task.n + 1
       /\ listen_task.pc = "next"
       /\ listen_task.h = 0
       /\ listen_task.n > 0 => Matching(listen_task.topic) \subseteq listen_task.ran]_vars

\* both handlers match every topic; the second message is being handled
\* after both handlers of the first one completed
C24_Witness ==
  /\ listen_task.n = 2
  /\ listen_task.pc = "handler"
  /\ \A j \in 1..Len(message_handlers) : message_handlers[j].pattern = <<"#">>
  /\ Len(message_handlers) >= 2

\* C25: no step of disconnect raises, and when disconnect returns the
\* listen task, if there is one, has ended and the bridge reports not
\* connected.
C25_DisconnectSafe ==
  [][\A i \in 1..Len(ev') :
       ev'[i].by = "disconnect" =>
         /\ ev'[i].k # "raise"
         /\ ev'[i].k = "return" => listen_task'.pc \in {"none", "done"} /\ ~connected']_vars

\* C26: the collection get_all() returned does not change afterwards, neither
\* in the devices it lists nor in what it shows of each of them: every record
\* of the list still holds what it held when the list was returned
C26_SnapshotUnchanged ==
  \A d \in DOMAIN snapshot : snapshot[d].cur = snapshot[d].was

\* C27: a status or values message whose payload is not valid JSON is dropped
\* silently: the handler called with it creates or changes no device record
\* and starts no broadcast
C27_InvalidJsonDropped ==
  [][(received' # received /\ ~ValidJson(received'))
       => /\ devices' = devices
          /\ handler' = NoHandler
          /\ active_connections' = active_connections
          /\ \A i \in 1..Len(ev') : ev'[i].k # "broadcast"]_vars

\* C28: whatever JSON payloads arrive on the values topic, the values of
\* every device record is a mapping, and no values update fails
C28_ValuesIsMapping ==
  /\ \A d \in DOMAIN devices : IsDict(devices[d].values)
  /\ \A i \in 1..Len(ev) : ~(ev[i].k = "raise" /\ ev[i].by = "values")

\* C29: in every state reached by register, update, mark_offline, remove,
\* clear_deleted and clear_all_deleted calls, no device id has both a record
\* and a tombstone
C29_RecordOrTombstone ==
  DOMAIN devices \cap deleted_devices = {}

\* a record and a tombstone side by side, a registration of the tombstoned
\* id just refused
C29_Witness ==
  /\ DOMAIN devices # {}
  /\ deleted_devices # {}
  /\ last.op = "register" /\ last.d \in deleted_devices /\ last.ret = "False"

\* C30: whenever the bridge reports is_connected, no connect() or
\* disconnect() being under way, its listen task is alive: waiting for the
\* next message or awaiting a handler; a listen loop ended by a broker error
\* leaves the bridge not connected
C30_ConnectedMeansListening ==
  (connected /\ mqcall.op \notin {"connect", "disconnect"})
    => listen_task.pc \in {"next", "handler"}

\* an emission for d is under way: a generator or a set_target call stands
\* at an await of _send_hr
Emitting(d) ==
  \/ \E t \in 1..Len(tasks) : tasks[t].dev = d /\ tasks[t].pc \in {"publish", "send"}
  \/ \E c \in 1..MaxInflight :
       coros[c].op = "set_target" /\ coros[c].dev = d /\ coros[c].pc \in {"publish", "send"}

\* the manager has its three dependencies, the bridge is connected and the
\* registry holds mappings only: every step of _send_hr has an effect
Wired ==
  /\ connected
  /\ deps = Deps(TRUE, TRUE, TRUE)
  /\ \A d \in DOMAIN devices : IsDict(devices[d].values)

\* C31: an emission is all-or-nothing: for a device without a tombstone and
\* with no emission under way, the heart_rate the registry holds is the value
\* last published to the device's set topic and the value last broadcast in
\* an hr_update; stated for a wired manager, where a complete emission
\* publishes, stores and broadcasts
C31_EmissionAllOrNothing ==
  \A d \in HrIds :
    (Wired /\ d \notin deleted_devices /\ ~Emitting(d))
      => /\ StoredHr(devices, d) = emitted[d].published
         /\ StoredHr(devices, d) = emitted[d].broadcast
====
